---- MODULE Spec2Model ----
(***************************************************************************)
(* A model of the SQL engine of fmbe-manager (lib/MCBEDatabase): the       *)
(* facade WorldSqlDatabase, its catalog (DatabaseSnapshotV1), the executor *)
(* (insertRow, update, delete, ALTER TABLE, select, triggers), transaction *)
(* snapshot/restore, export/import and the save path to the store.         *)
(*                                                                         *)
(* Statements are modelled as the ParsedQuery records parseSql produces.   *)
(* JSON values are tagged records; a Row is a function from its own keys   *)
(* to values (row[c] of a missing key is Undefined). JavaScript object key *)
(* order is not modelled: a row, and the table map, are unordered maps.    *)
(***************************************************************************)
EXTENDS Integers, Sequences, FiniteSets, TLC

VARIABLES
  snapshot,           \* WorldSqlDatabase.snapshot
  dirty,              \* WorldSqlDatabase.dirty
  lastInsertId,       \* WorldSqlDatabase.lastInsertId
  lastChanges,        \* WorldSqlDatabase.lastChanges
  totalChangesValue,  \* WorldSqlDatabase.totalChangesValue
  autoSave,           \* WorldSqlDatabase.autoSave (constructor option)
  stored,             \* the payload held by the store (world dynamic properties)
  inputSql,           \* the text handed to tokenize / parseSql
  inputParams,        \* the params handed to parseSql
  parserResult,       \* what tokenize / parseSql returned or threw
  properties,         \* the world dynamic properties of the chunked store
  lastSave,           \* the text of the last save() of the chunked store that returned
  storeCall,          \* the last call on the chunked store and what it returned
  callStack,          \* the insertRow calls of the running exec(), innermost last
  loaded,             \* groups.ts: loaded
  groups,             \* groups.ts: groups
  groupsProperty,     \* the world dynamic property fmbe:groups
  opScores,           \* the scores OpSeq, OpTarget, OpType, OpValue of each group participant
  groupLocationX,     \* the score fmbe:group:LocationX of each group participant
  groupOperationSeqCache,  \* runtime.ts: groupOperationSeqCache
  groupSnapshotCache, \* runtime.ts: groupSnapshotCache
  fmbeRecords,        \* the rows of fmbe_entities, by id
  lastTick            \* what the last tick saw and did

vars == <<snapshot, dirty, lastInsertId, lastChanges, totalChangesValue, autoSave, stored, inputSql, inputParams, parserResult, properties, lastSave, storeCall, callStack,
         loaded, groups, groupsProperty, opScores, groupLocationX, groupOperationSeqCache, groupSnapshotCache,
         fmbeRecords, lastTick>>

(***************************************************************************)
(* Bounds of the model.                                                    *)
(***************************************************************************)
MaxRows == 2            \* rows per table
MaxAutoInc == 3         \* largest autoInc counter explored
MaxTotalChanges == 2    \* largest totalChangesValue explored
MaxNum == 2             \* number literals 0..MaxNum
MaxTriggerDepth == 2    \* nesting of trigger bodies explored
StoreCapacity == 3      \* rows the store's chunks can hold (chunkSize * maxChunks)
MaxColumns == 3         \* columns per table
MaxParams == 3          \* params handed to parseSql
MaxText == 4            \* characters of a text handed to tokenize alone
MaxValueText == 2       \* characters of a string value of a triggering row
MaxStoreText == 3       \* code units of a text handed to the chunked store
ChunkSize == 4          \* chunkSize of the chunked store, in bytes
MaxChunks == 2          \* maxChunks of the chunked store
MaxSeq == 2             \* largest OpSeq score explored

\* a dynamic property: undefined, or the string it holds. The meta property
\* holds the JSON text of a MetaV2 object, kept as the object.
NoProperty == [defined |-> FALSE, value |-> <<>>]
Property(value) == [defined |-> TRUE, value |-> value]
NoProperties == [meta |-> NoProperty, chunks |-> [i \in 0..(MaxChunks - 1) |-> NoProperty]]

(***************************************************************************)
(* JSON values (JsonValue).                                                *)
(***************************************************************************)
Null == [k |-> "null", v |-> 0]
Undefined == [k |-> "undefined", v |-> 0]
Num(n) == [k |-> "number", v |-> n]
Str(i) == [k |-> "string", v |-> i]

IsNullish(x) == x.k \in {"null", "undefined"}

\* Object.is on the modelled values
ObjectIs(a, b) == a = b

Range(s) == {s[i] : i \in 1..Len(s)}
SetMin(S) == CHOOSE x \in S : \A y \in S : x <= y
\* the n-th smallest element of a set of numbers
Nth(S, n) == CHOOSE i \in S : Cardinality({x \in S : x < i}) = n - 1
\* the sequences of a sequence, one after the other
RECURSIVE Concat(_)
Concat(seqs) == IF seqs = <<>> THEN <<>> ELSE Head(seqs) \o Concat(Tail(seqs))

(***************************************************************************)
(* Rows (Row = Record<string, RowValue>).                                  *)
(***************************************************************************)
EmptyRow == [c \in {} |-> Null]
Get(row, c) == IF c \in DOMAIN row THEN row[c] ELSE Undefined
HasOwn(row, c) == c \in DOMAIN row
Put(row, c, val) == [x \in (DOMAIN row) \cup {c} |-> IF x = c THEN val ELSE row[x]]
Without(row, c) == [x \in (DOMAIN row) \ {c} |-> row[x]]
\* { ...a, ...b }
Spread(a, b) == [x \in (DOMAIN a) \cup (DOMAIN b) |-> IF x \in DOMAIN b THEN b[x] ELSE a[x]]

\* `${table}.${column}`
QualifiedNames ==
  [t   |-> [id |-> "t.id", a |-> "t.a", b |-> "t.b", c |-> "t.c", tid |-> "t.tid", z |-> "t.z"],
   log |-> [id |-> "log.id", a |-> "log.a", b |-> "log.b", c |-> "log.c", tid |-> "log.tid", z |-> "log.z"]]
Qualify(t, c) == QualifiedNames[t][c]

(***************************************************************************)
(* Conditions (WhereNode) and their evaluation on a row.                   *)
(***************************************************************************)
NoNode == [type |-> "none"]
Ref(c) == [table |-> "", column |-> c]
Clause(c, op, val) == [type |-> "clause", clause |-> [column |-> Ref(c), op |-> op, value |-> val]]
Not(n) == [type |-> "not", node |-> n]

jsonEqual(a, b) == a = b

compare(clause, left) ==
  LET op == clause.op
      right == clause.value
      ordered == (left.k = "number" /\ right.k = "number") \/ (left.k = "string" /\ right.k = "string")
  IN CASE op = "IS_NULL" -> IsNullish(left)
       [] op = "IS_NOT_NULL" -> ~IsNullish(left)
       [] op \notin {"IS_NULL", "IS_NOT_NULL"} /\ ordered ->
            CASE op = "=" -> left.v = right.v
              [] op = "!=" -> left.v # right.v
              [] op = "<" -> left.v < right.v
              [] op = "<=" -> left.v <= right.v
              [] op = ">" -> left.v > right.v
              [] op = ">=" -> left.v >= right.v
              [] OTHER -> FALSE
       [] op = "=" /\ ~ordered -> jsonEqual(left, right)
       [] op = "!=" /\ ~ordered -> ~jsonEqual(left, right)
       [] OTHER -> FALSE

resolveColumnValue(row, ref, outerRow) ==
  IF ref.table # "" /\ Get(row, Qualify(ref.table, ref.column)) # Undefined
    THEN row[Qualify(ref.table, ref.column)]
  ELSE IF HasOwn(row, ref.column) THEN row[ref.column]
  ELSE IF ref.table # "" /\ Get(outerRow, Qualify(ref.table, ref.column)) # Undefined
    THEN outerRow[Qualify(ref.table, ref.column)]
  ELSE IF HasOwn(outerRow, ref.column) THEN outerRow[ref.column]
  ELSE Get(row, ref.column)

RECURSIVE rowMatchesWhereBasic(_, _)
rowMatchesWhereBasic(row, where) ==
  CASE where.type = "none" -> TRUE
    [] where.type = "clause" -> compare(where.clause, resolveColumnValue(row, where.clause.column, EmptyRow))
    [] where.type = "not" -> ~rowMatchesWhereBasic(row, where.node)
    [] where.type = "and" -> rowMatchesWhereBasic(row, where.left) /\ rowMatchesWhereBasic(row, where.right)
    [] where.type = "or" -> rowMatchesWhereBasic(row, where.left) \/ rowMatchesWhereBasic(row, where.right)

\* the executor's rowMatchesWhere, for conditions without subqueries
rowMatchesWhere(row, where, outerRow) ==
  CASE where.type = "none" -> TRUE
    [] where.type = "clause" -> compare(where.clause, resolveColumnValue(row, where.clause.column, outerRow))
    [] OTHER -> rowMatchesWhereBasic(row, where)

(***************************************************************************)
(* Schema (ColumnDef, TableDef, TableData) and the catalog.                *)
(***************************************************************************)
NoPk == ""

Col(name, type) ==
  [name |-> name, type |-> type, notNull |-> FALSE, primaryKey |-> FALSE, unique |-> FALSE,
   default |-> Undefined, check |-> NoNode]

IsNumericType(type) == type \in {"INTEGER", "REAL"}

emptySnapshot == [v |-> 1, tables |-> [n \in {} |-> Null], triggers |-> <<>>]

HasTable(snap, name) == name \in DOMAIN snap.tables
\* this.snapshot.tables[name] = table
SetTable(snap, name, table) ==
  [snap EXCEPT !.tables = [n \in (DOMAIN snap.tables) \cup {name} |-> IF n = name THEN table ELSE snap.tables[n]]]

ColumnNamesOf(def) == {def.columns[i].name : i \in 1..Len(def.columns)}
\* columns.find((c) => c.name === name), for a name the columns hold
ColumnNamed(def, name) == def.columns[SetMin({i \in 1..Len(def.columns) : def.columns[i].name = name})]

NoColumn == [name |-> "", type |-> "JSON"]
primaryKeyColumn(def) ==
  IF def.primaryKey = NoPk \/ def.primaryKey \notin ColumnNamesOf(def) THEN NoColumn
  ELSE ColumnNamed(def, def.primaryKey)

validateValueType(col, value) ==
  IF IsNullish(value) THEN TRUE
  ELSE CASE col.type = "TEXT" -> value.k = "string"
         [] col.type = "INTEGER" -> value.k = "number"
         [] col.type = "REAL" -> value.k = "number"
         [] col.type = "BOOLEAN" -> value.k = "boolean"
         [] OTHER -> TRUE

\* "" when every CHECK accepts the row, else the error
validateChecks(table, row) ==
  IF \/ \E i \in 1..Len(table.def.columns) :
          /\ table.def.columns[i].check # NoNode
          /\ ~rowMatchesWhereBasic(row, table.def.columns[i].check)
     \/ \E i \in 1..Len(table.def.checks) : ~rowMatchesWhereBasic(row, table.def.checks[i])
  THEN "CHECK" ELSE ""

rowMatchesUniqueConstraint(row, other, columns) ==
  \A i \in 1..Len(columns) :
     /\ ~IsNullish(Get(row, columns[i]))
     /\ ~IsNullish(Get(other, columns[i]))
     /\ ObjectIs(Get(row, columns[i]), Get(other, columns[i]))

(***************************************************************************)
(* The facade object as a record, and the results of its operations.       *)
(***************************************************************************)
Self ==
  [snapshot |-> snapshot, dirty |-> dirty, lastInsertId |-> lastInsertId,
   lastChanges |-> lastChanges, totalChangesValue |-> totalChangesValue, stored |-> stored]

\* a normal return / a thrown Error, with the object as the call left it
Ok(db, changes, rows) == [db |-> db, err |-> "", changes |-> changes, rows |-> rows]
Fail(db, err) == [db |-> db, err |-> err, changes |-> 0, rows |-> <<>>]

(***************************************************************************)
(* JSON text. JSON.stringify writes an object as its members: a row        *)
(* becomes the set of its key/value members, and a member whose value is   *)
(* undefined is not written; the table map becomes the set of its          *)
(* name/table members. JSON.parse rebuilds the objects from the members.   *)
(***************************************************************************)
StringifyRow(row) == {<<c, row[c]>> : c \in {x \in DOMAIN row : row[x] # Undefined}}
ParseRow(members) == [c \in {m[1] : m \in members} |-> (CHOOSE m \in members : m[1] = c)[2]]

StringifyTable(table) ==
  [def |-> table.def, rows |-> [i \in 1..Len(table.rows) |-> StringifyRow(table.rows[i])], autoInc |-> table.autoInc]
\* a parse that loses the autoInc counters
ParseTableResetsAutoInc(text) ==
  [def |-> text.def, rows |-> [i \in 1..Len(text.rows) |-> ParseRow(text.rows[i])], autoInc |-> 1]

ParseTable(text) ==
  [def |-> text.def, rows |-> [i \in 1..Len(text.rows) |-> ParseRow(text.rows[i])], autoInc |-> text.autoInc]

JSONstringify(snap) ==
  [v |-> snap.v,
   tables |-> {<<n, StringifyTable(snap.tables[n])>> : n \in DOMAIN snap.tables},
   triggers |-> snap.triggers]
JSONparse(text) ==
  [v |-> text.v,
   tables |-> [n \in {m[1] : m \in text.tables} |-> ParseTable((CHOOSE m \in text.tables : m[1] = n)[2])],
   triggers |-> text.triggers]

(***************************************************************************)
(* The store (WorldDynamicPropertyJsonStore) as the facade uses it: the    *)
(* payload it holds, and save() refusing a text that needs more than       *)
(* maxChunks chunks. The size of a text is counted in rows.                *)
(***************************************************************************)
NoData == [absent |-> TRUE]

RECURSIVE SumOver(_, _)
SumOver(S, f) == IF S = {} THEN 0 ELSE LET x == CHOOSE y \in S : TRUE IN f[x] + SumOver(S \ {x}, f)

TextSize(text) == SumOver(text.tables, [m \in text.tables |-> Len(m[2].rows)])
storeFits(text) == TextSize(text) <= StoreCapacity

\* WorldSqlDatabase.save
save(db) ==
  IF ~db.dirty THEN Ok(db, 0, <<>>)
  ELSE IF ~storeFits(JSONstringify(db.snapshot)) THEN Fail(db, "DB_TOO_LARGE")
  ELSE Ok([db EXCEPT !.stored = JSONstringify(db.snapshot), !.dirty = FALSE], 0, <<>>)

\* if (this.autoSave) this.save();
autoSaveStep(db) == IF autoSave THEN save(db) ELSE Ok(db, 0, <<>>)

\* WorldSqlDatabase.load: the catalog of the stored text; the empty catalog when
\* the store holds nothing or the text is not a snapshot of version 1
load(db) ==
  IF db.stored = NoData THEN [db EXCEPT !.snapshot = emptySnapshot, !.dirty = FALSE]
  ELSE IF JSONparse(db.stored).v # 1 THEN [db EXCEPT !.snapshot = emptySnapshot, !.dirty = FALSE]
  ELSE [db EXCEPT !.snapshot = JSONparse(db.stored), !.dirty = FALSE]

\* WorldSqlDatabase.export
export(db) == JSONstringify(db.snapshot)

(***************************************************************************)
(* DDL.                                                                    *)
(***************************************************************************)
inferColumnDefsFromInsert(columns) == [i \in 1..Len(columns) |-> Col(columns[i], "JSON")]

FirstPrimaryKeyName(columns) ==
  LET S == {i \in 1..Len(columns) : columns[i].primaryKey}
  IN IF S = {} THEN NoPk ELSE columns[SetMin(S)].name

\* ensureTable, when the table does not exist
ensureTable(db, name, columns) ==
  IF HasTable(db.snapshot, name) THEN db
  ELSE LET pk == FirstPrimaryKeyName(columns)
           def == [name |-> name, columns |-> columns, primaryKey |-> pk,
                   autoIncrement |-> (pk # NoPk /\ IsNumericType(ColumnNamed([columns |-> columns], pk).type)),
                   uniqueConstraints |-> <<>>, checks |-> <<>>]
       IN [db EXCEPT !.snapshot = SetTable(db.snapshot, name, [def |-> def, rows |-> <<>>, autoInc |-> 1]),
                     !.dirty = TRUE]

createTable(db, q) ==
  IF HasTable(db.snapshot, q.table)
    THEN IF q.ifNotExists THEN Ok(db, 0, <<>>) ELSE Fail(db, "TABLE_EXISTS")
  ELSE IF Len(q.columns) = 0 THEN Fail(db, "NO_COLUMNS")
  ELSE LET names == {q.columns[i].name : i \in 1..Len(q.columns)}
           pk == IF q.primaryKey # NoPk THEN q.primaryKey ELSE FirstPrimaryKeyName(q.columns)
       IN IF pk # NoPk /\ pk \notin names THEN Fail(db, "PK_COLUMN_NOT_FOUND")
          ELSE IF \E i \in 1..Len(q.uniqueConstraints) : \E j \in 1..Len(q.uniqueConstraints[i]) :
                     q.uniqueConstraints[i][j] \notin names
            THEN Fail(db, "UNIQUE_COLUMN_NOT_FOUND")
          ELSE LET autoIncrement == pk # NoPk /\ IsNumericType(ColumnNamed([columns |-> q.columns], pk).type)
                   def == [name |-> q.table, columns |-> q.columns, primaryKey |-> pk,
                           autoIncrement |-> autoIncrement,
                           uniqueConstraints |-> q.uniqueConstraints, checks |-> q.checks]
               IN Ok([db EXCEPT !.snapshot = SetTable(db.snapshot, q.table, [def |-> def, rows |-> <<>>, autoInc |-> 1]),
                                !.dirty = TRUE], 0, <<>>)

dropTable(db, q) ==
  IF ~HasTable(db.snapshot, q.table)
    THEN IF q.ifExists THEN Ok(db, 0, <<>>) ELSE Fail(db, "TABLE_NOT_FOUND")
  ELSE Ok([db EXCEPT !.snapshot.tables = [n \in (DOMAIN db.snapshot.tables) \ {q.table} |-> db.snapshot.tables[n]],
                     !.dirty = TRUE], 0, <<>>)

alterTableAddColumn(db, tableName, column) ==
  IF ~HasTable(db.snapshot, tableName) THEN Fail(db, "TABLE_NOT_FOUND")
  ELSE LET table == db.snapshot.tables[tableName] IN
    IF column.name \in ColumnNamesOf(table.def) THEN Fail(db, "COLUMN_EXISTS")
    ELSE IF column.primaryKey /\ table.def.primaryKey # NoPk THEN Fail(db, "PK_EXISTS")
    ELSE IF column.notNull /\ column.default = Undefined /\ Len(table.rows) > 0 THEN Fail(db, "NOT_NULL_NEEDS_DEFAULT")
    ELSE IF column.unique /\ ~IsNullish(column.default) /\ Len(table.rows) > 0 THEN Fail(db, "UNIQUE_NEEDS_UNIQUE_DEFAULT")
    ELSE IF column.default # Undefined /\ ~validateValueType(column, column.default) THEN Fail(db, "TYPE")
    ELSE LET def1 == [table.def EXCEPT !.columns = Append(@, column)]
             def2 == IF column.primaryKey
                       THEN [def1 EXCEPT !.primaryKey = column.name, !.autoIncrement = IsNumericType(column.type)]
                       ELSE def1
             fill == IF column.default # Undefined THEN column.default ELSE Null
             rows == [i \in 1..Len(table.rows) |-> Put(table.rows[i], column.name, fill)]
         IN Ok([db EXCEPT !.snapshot = SetTable(db.snapshot, tableName, [table EXCEPT !.def = def2, !.rows = rows]),
                          !.dirty = TRUE], 0, <<>>)

alterTableRenameColumn(db, tableName, from, to) ==
  IF ~HasTable(db.snapshot, tableName) THEN Fail(db, "TABLE_NOT_FOUND")
  ELSE LET table == db.snapshot.tables[tableName] IN
    IF to \in ColumnNamesOf(table.def) THEN Fail(db, "COLUMN_EXISTS")
    ELSE IF from \notin ColumnNamesOf(table.def) THEN Fail(db, "COLUMN_NOT_FOUND")
    ELSE LET first == SetMin({i \in 1..Len(table.def.columns) : table.def.columns[i].name = from})
             def == [table.def EXCEPT
                       !.columns = [@ EXCEPT ![first].name = to],
                       !.primaryKey = IF @ = from THEN to ELSE @,
                       !.uniqueConstraints =
                          [i \in 1..Len(@) |-> [j \in 1..Len(@[i]) |-> IF @[i][j] = from THEN to ELSE @[i][j]]]]
             rows == [i \in 1..Len(table.rows) |->
                        IF HasOwn(table.rows[i], from)
                          THEN Put(Without(table.rows[i], from), to, table.rows[i][from])
                          ELSE table.rows[i]]
         IN Ok([db EXCEPT !.snapshot = SetTable(db.snapshot, tableName, [table EXCEPT !.def = def, !.rows = rows]),
                          !.dirty = TRUE], 0, <<>>)

alterTableDropColumn(db, tableName, columnName) ==
  IF ~HasTable(db.snapshot, tableName) THEN Fail(db, "TABLE_NOT_FOUND")
  ELSE LET table == db.snapshot.tables[tableName] IN
    IF columnName \notin ColumnNamesOf(table.def) THEN Fail(db, "COLUMN_NOT_FOUND")
    ELSE LET idx == SetMin({i \in 1..Len(table.def.columns) : table.def.columns[i].name = columnName})
             KeepConstraint(cols) == columnName \notin Range(cols)
             def == [table.def EXCEPT
                       !.columns = SubSeq(@, 1, idx - 1) \o SubSeq(@, idx + 1, Len(@)),
                       !.primaryKey = IF @ = columnName THEN NoPk ELSE @,
                       !.autoIncrement = IF table.def.primaryKey = columnName THEN FALSE ELSE @,
                       !.uniqueConstraints = SelectSeq(@, KeepConstraint)]
             rows == [i \in 1..Len(table.rows) |-> Without(table.rows[i], columnName)]
         IN Ok([db EXCEPT !.snapshot = SetTable(db.snapshot, tableName, [table EXCEPT !.def = def, !.rows = rows]),
                          !.dirty = TRUE], 0, <<>>)

(***************************************************************************)
(* Statements (ParsedQuery). columns = <<>> is an INSERT without a column  *)
(* list; or = "" is a plain INSERT; limit = NoLimit is an absent LIMIT;     *)
(* returning = NoReturning is an absent RETURNING clause. A ReturnSpec is  *)
(* [all, columns]: all for RETURNING *, else the list of [ref, alias].     *)
(***************************************************************************)
NoLimit == -1
NoReturning == [all |-> FALSE, columns |-> <<>>]
ReturningStar == [all |-> TRUE, columns |-> <<>>]
ReturningColumns(columns) == [all |-> FALSE, columns |-> columns]
\* a select column (SelectColumn): ref [AS alias], table.ref, or an aggregate
\* func(ref) / func(*), the latter with ref = NoRef
NoRef == [table |-> "", column |-> ""]
ColumnAs(c, alias) == [type |-> "column", func |-> "", ref |-> Ref(c), alias |-> alias]
ColumnOf(t, c) == [type |-> "column", func |-> "", ref |-> [table |-> t, column |-> c], alias |-> ""]
Aggregate(func, ref) == [type |-> "aggregate", func |-> func, ref |-> ref, alias |-> ""]

Insert(table, columns, values, or) ==
  [type |-> "insert", table |-> table, columns |-> columns, values |-> values, or |-> or, defaultValues |-> FALSE,
   returning |-> NoReturning]
InsertDefaultValues(table, or) ==
  [type |-> "insert", table |-> table, columns |-> <<>>, values |-> <<>>, or |-> or, defaultValues |-> TRUE,
   returning |-> NoReturning]
Update(table, set, where) ==
  [type |-> "update", table |-> table, set |-> set, where |-> where, limit |-> NoLimit, returning |-> NoReturning]
Delete(table, where) ==
  [type |-> "delete", table |-> table, where |-> where, limit |-> NoLimit, returning |-> NoReturning]
\* the statement q followed by a RETURNING clause
Returning(q, spec) == [q EXCEPT !.returning = spec]
\* SELECT * / SELECT columns: all stands for columns === "*"
SelectStar(table, where) ==
  [type |-> "select", from |-> [name |-> table, alias |-> ""], joins |-> <<>>, all |-> TRUE, columns |-> <<>>,
   groupBy |-> <<>>, where |-> where, orderBy |-> <<>>]
Select(columns, table, where) ==
  [type |-> "select", from |-> [name |-> table, alias |-> ""], joins |-> <<>>, all |-> FALSE, columns |-> columns,
   groupBy |-> <<>>, where |-> where, orderBy |-> <<>>]
\* an ORDER BY key (nulls "" when no NULLS FIRST / LAST is written), and q ordered by keys
OrderKey(c, direction, nulls) == [ref |-> Ref(c), direction |-> direction, nulls |-> nulls]
OrderBy(q, keys) == [q EXCEPT !.orderBy = keys]
\* a JoinOnNode clause left = right, and q with one more JOIN
On(left, right) == [type |-> "clause", clause |-> [left |-> left, right |-> right]]
Join(q, joinType, table, on) ==
  [q EXCEPT !.joins = Append(@, [joinType |-> joinType, table |-> [name |-> table, alias |-> ""], on |-> on])]
CreateTable(table, columns, uniqueConstraints, checks) ==
  [type |-> "createTable", table |-> table, columns |-> columns, primaryKey |-> FirstPrimaryKeyName(columns),
   ifNotExists |-> FALSE, uniqueConstraints |-> uniqueConstraints, checks |-> checks]
AlterAdd(table, column) == [type |-> "alterTable", table |-> table, action |-> [type |-> "add", column |-> column]]
AlterRename(table, from, to) ==
  [type |-> "alterTable", table |-> table, action |-> [type |-> "rename", from |-> from, to |-> to]]
AlterDrop(table, column) == [type |-> "alterTable", table |-> table, action |-> [type |-> "drop", column |-> column]]
CreateTrigger(name, table, timing, event, statement) ==
  [type |-> "createTrigger",
   trigger |-> [name |-> name, table |-> table, timing |-> timing, event |-> event, statement |-> statement]]
DropTrigger(name) == [type |-> "dropTrigger", name |-> name, ifExists |-> FALSE]

(***************************************************************************)
(* Triggers: NEW.col / OLD.col references of a trigger body become         *)
(* literals (replaceTriggerRefs, sqlLiteral) that parseSql reads back.     *)
(* A trigger's statement is the sequence of statements of its body, with   *)
(* TriggerRef values where the body text names NEW.col or OLD.col.         *)
(***************************************************************************)
TriggerRef(source, col) == [k |-> "ref", source |-> source, col |-> col]

\* the literal's token
sqlLiteral(value) ==
  IF IsNullish(value) THEN [type |-> "ident", value |-> Null]
  ELSE IF value.k = "number" THEN [type |-> "number", value |-> value]
  ELSE [type |-> "string", value |-> value]

\* Cursor.parseValue on that token
parseValue(token) == IF token.type = "ident" THEN Null ELSE token.value

replaceRef(val, newRow, oldRow) ==
  IF val.k # "ref" THEN val
  ELSE LET source == IF val.source = "NEW" THEN newRow ELSE oldRow
       IN parseValue(sqlLiteral(IF source = <<>> THEN Null ELSE Get(source[1], val.col)))

replaceWhereRefs(where, newRow, oldRow) ==
  IF where.type = "clause"
    THEN [where EXCEPT !.clause.value = replaceRef(@, newRow, oldRow)]
    ELSE where

\* replaceTriggerRefs followed by parseSql, on one statement of the body
replaceTriggerRefs(q, newRow, oldRow) ==
  CASE q.type = "insert" ->
         [q EXCEPT !.values = [i \in 1..Len(@) |-> [j \in 1..Len(@[i]) |-> replaceRef(@[i][j], newRow, oldRow)]]]
    [] q.type = "update" ->
         [q EXCEPT !.set = [c \in DOMAIN @ |-> replaceRef(@[c], newRow, oldRow)],
                   !.where = replaceWhereRefs(@, newRow, oldRow)]
    [] q.type = "delete" -> [q EXCEPT !.where = replaceWhereRefs(@, newRow, oldRow)]
    [] OTHER -> q

createSingleRowTable(name, row) ==
  [def |-> [name |-> name, columns |-> <<>>, primaryKey |-> NoPk, autoIncrement |-> FALSE,
            uniqueConstraints |-> <<>>, checks |-> <<>>],
   rows |-> <<row>>, autoInc |-> 1]

NoCtes == [n \in {} |-> Null]

RECURSIVE executeWithCtes(_, _, _, _)

\* the statements of one trigger body, in order; the first error ends them
RECURSIVE runTriggerBody(_, _, _, _, _, _, _)
\* after statement j of the body returned r: stop on its error, else go on with statement j + 1
thenTriggerBody(r, statements, j, newRow, oldRow, ctes, depth) ==
  IF r.err # "" THEN Fail(r.db, r.err)
  ELSE runTriggerBody(r.db, statements, j + 1, newRow, oldRow, ctes, depth)

runTriggerBody(db, statements, j, newRow, oldRow, ctes, depth) ==
  IF j > Len(statements) THEN Ok(db, 0, <<>>)
  ELSE IF depth >= MaxTriggerDepth THEN Fail(db, "STACK_OVERFLOW")
  ELSE thenTriggerBody(executeWithCtes(db, replaceTriggerRefs(statements[j], newRow, oldRow), ctes, depth + 1),
                       statements, j, newRow, oldRow, ctes, depth)

\* the NEW / OLD single-row tables a trigger body runs with
triggerCtes(newRow, oldRow) ==
  [n \in (IF newRow = <<>> THEN {} ELSE {"NEW"}) \cup (IF oldRow = <<>> THEN {} ELSE {"OLD"}) |->
     createSingleRowTable(n, IF n = "NEW" THEN newRow[1] ELSE oldRow[1])]

\* fireTriggers: newRow / oldRow are <<>> (absent) or <<row>>
RECURSIVE fireTriggersFrom(_, _, _, _, _, _, _, _, _)
\* after trigger i returned r: stop on its error, else go on with trigger i + 1
thenFireTriggers(r, triggers, i, timing, event, table, newRow, oldRow, depth) ==
  IF r.err # "" THEN Fail(r.db, r.err)
  ELSE fireTriggersFrom(r.db, triggers, i + 1, timing, event, table, newRow, oldRow, depth)

fireTriggersFrom(db, triggers, i, timing, event, table, newRow, oldRow, depth) ==
  IF i > Len(triggers) THEN Ok(db, 0, <<>>)
  ELSE IF triggers[i].table # table \/ triggers[i].timing # timing \/ triggers[i].event # event
    THEN fireTriggersFrom(db, triggers, i + 1, timing, event, table, newRow, oldRow, depth)
  ELSE thenFireTriggers(runTriggerBody(db, triggers[i].statement, 1, newRow, oldRow,
                                       triggerCtes(newRow, oldRow), depth),
                        triggers, i, timing, event, table, newRow, oldRow, depth)

\* a statement that fires no trigger
fireNoTriggers(db, timing, event, table, newRow, oldRow, depth) == Ok(db, 0, <<>>)

fireTriggers(db, timing, event, table, newRow, oldRow, depth) ==
  fireTriggersFrom(db, db.snapshot.triggers, 1, timing, event, table, newRow, oldRow, depth)

(***************************************************************************)
(* INSERT. insertRow returns [db, err, inserted, row]: err is the message  *)
(* of the Error thrown ("" when none), inserted is FALSE when it returns   *)
(* null. Its steps are operators that hand their results on in source      *)
(* order.                                                                  *)
(***************************************************************************)
\* a conflict detection that finds nothing
findNoConflictingRows(table, row) == {}

\* the indices of the stored rows the new row conflicts with
findConflictingRows(table, row) ==
  LET pk == table.def.primaryKey
      Conflict(existing) ==
        \/ pk # NoPk /\ HasOwn(row, pk) /\ ObjectIs(Get(existing, pk), row[pk])
        \/ \E i \in 1..Len(table.def.columns) :
             /\ table.def.columns[i].unique
             /\ HasOwn(row, table.def.columns[i].name)
             /\ ObjectIs(Get(existing, table.def.columns[i].name), row[table.def.columns[i].name])
        \/ \E i \in 1..Len(table.def.uniqueConstraints) :
             /\ \A j \in 1..Len(table.def.uniqueConstraints[i]) : HasOwn(row, table.def.uniqueConstraints[i][j])
             /\ rowMatchesUniqueConstraint(row, existing, table.def.uniqueConstraints[i])
  IN {i \in 1..Len(table.rows) : Conflict(table.rows[i])}

\* the row built from the column list and the values (a repeated column keeps its last value)
RowOf(columns, values) ==
  [c \in Range(columns) |-> values[CHOOSE i \in 1..Len(columns) : columns[i] = c /\ \A j \in (i + 1)..Len(columns) : columns[j] # c]]

\* the defaults of the columns the row leaves undefined
WithDefaults(def, row) ==
  LET defaulted == {i \in 1..Len(def.columns) :
                      Get(row, def.columns[i].name) = Undefined /\ def.columns[i].default # Undefined}
  IN [c \in (DOMAIN row) \cup {def.columns[i].name : i \in defaulted} |->
        IF c \in DOMAIN row THEN row[c] ELSE ColumnNamed(def, c).default]

\* the first error of insertRow's loop over the columns, "" when there is none
InsertColumnError(def, row, rowD) ==
  LET ErrorAt(i) ==
        IF IsNullish(Get(row, def.columns[i].name)) /\ def.columns[i].notNull THEN "NOT_NULL"
        ELSE IF Get(rowD, def.columns[i].name) # Undefined
                /\ ~validateValueType(def.columns[i], Get(rowD, def.columns[i].name)) THEN "TYPE"
        ELSE ""
      bad == {i \in 1..Len(def.columns) : ErrorAt(i) # ""}
  IN IF bad = {} THEN "" ELSE ErrorAt(SetMin(bad))

\* a plain INSERT that throws on no conflict
NoDuplicateError(table, row) == ""

\* the error a plain INSERT throws on conflicts, "" when no branch throws
DuplicateError(table, row) ==
  LET pk == table.def.primaryKey
  IN IF pk # NoPk /\ HasOwn(row, pk) THEN "DUPLICATE_PK"
     ELSE IF \E i \in 1..Len(table.def.columns) :
                /\ table.def.columns[i].unique
                /\ HasOwn(row, table.def.columns[i].name)
                /\ \E k \in 1..Len(table.rows) :
                     ObjectIs(Get(table.rows[k], table.def.columns[i].name), row[table.def.columns[i].name])
       THEN "DUPLICATE_UNIQUE"
     ELSE IF \E i \in 1..Len(table.def.uniqueConstraints) :
                /\ \A j \in 1..Len(table.def.uniqueConstraints[i]) : HasOwn(row, table.def.uniqueConstraints[i][j])
                /\ \E k \in 1..Len(table.rows) :
                     rowMatchesUniqueConstraint(row, table.rows[k], table.def.uniqueConstraints[i])
       THEN "DUPLICATE_UNIQUE_CONSTRAINT"
     ELSE ""

\* the rows of a table, replaced
SetRows(db, tableName, rows) == [db EXCEPT !.snapshot.tables[tableName].rows = rows]

\* insertRow throws / returns null / returns the row
Thrown(db, err) == [db |-> db, err |-> err, inserted |-> FALSE, row |-> EmptyRow]
Ignored(db) == [db |-> db, err |-> "", inserted |-> FALSE, row |-> EmptyRow]
Inserted(db, row) == [db |-> [db EXCEPT !.dirty = TRUE], err |-> "", inserted |-> TRUE, row |-> row]

\* after the AFTER INSERT triggers returned: this.dirty = true; return row
afterPush(after, row) ==
  IF after.err # "" THEN Thrown(after.db, after.err) ELSE Inserted(after.db, row)

\* after the BEFORE INSERT triggers returned: table.rows.push(row), then the AFTER INSERT triggers
pushAfter(before, tableName, row, depth) ==
  IF before.err # "" THEN Thrown(before.db, before.err)
  ELSE afterPush(fireTriggers(SetRows(before.db, tableName, Append(before.db.snapshot.tables[tableName].rows, row)),
                              "AFTER", "INSERT", tableName, <<row>>, <<>>, depth),
                 row)

\* table.rows.push(row) around the INSERT triggers
pushRow(db, tableName, row, depth) ==
  pushAfter(fireTriggers(db, "BEFORE", "INSERT", tableName, <<row>>, <<>>, depth), tableName, row, depth)

\* an OR REPLACE that removes nothing
withConflicts(rows, conflicts) == rows

\* table.rows.filter((r) => !conflicts.includes(r))
withoutConflicts(rows, conflicts) ==
  LET kept == {i \in 1..Len(rows) : i \notin conflicts}
  IN [n \in 1..Cardinality(kept) |-> rows[CHOOSE i \in kept : Cardinality({x \in kept : x < i}) = n - 1]]

\* the plain INSERT on conflicts: throws the duplicate error, or falls through to the push
throwDuplicate(db, tableName, row, err, depth) ==
  IF err # "" THEN Thrown(db, err) ELSE pushRow(db, tableName, row, depth)

\* if (conflicts.length > 0) { IGNORE / REPLACE / throw }, then the push
resolveConflicts(db, tableName, row, conflicts, orAction, depth) ==
  IF conflicts = {} THEN pushRow(db, tableName, row, depth)
  ELSE IF orAction = "IGNORE" THEN Ignored(db)
  ELSE IF orAction = "REPLACE"
    THEN pushRow(SetRows(db, tableName, withoutConflicts(db.snapshot.tables[tableName].rows, conflicts)),
                 tableName, row, depth)
  ELSE throwDuplicate(db, tableName, row, DuplicateError(db.snapshot.tables[tableName], row), depth)

\* the table has a primary key column of a numeric type
NumericPk(def) ==
  def.primaryKey # NoPk /\ primaryKeyColumn(def) # NoColumn /\ IsNumericType(primaryKeyColumn(def).type)

\* the key of the row is known: the numeric key moves autoInc and lastInsertId, then the conflicts
insertKeyed(db, tableName, row, numericPk, autoInc1, orAction, depth) ==
  LET pk == db.snapshot.tables[tableName].def.primaryKey
  IN IF numericPk /\ Get(row, pk).k # "number" THEN Thrown(db, "PK_NOT_A_NUMBER")
     ELSE resolveConflicts(
            [db EXCEPT !.snapshot.tables[tableName].autoInc =
                          IF numericPk /\ Get(row, pk).v >= autoInc1 THEN Get(row, pk).v + 1 ELSE autoInc1,
                       !.lastInsertId = IF numericPk THEN Get(row, pk) ELSE @],
            tableName, row, findConflictingRows(db.snapshot.tables[tableName], row), orAction, depth)

\* the columns and checks passed (err = ""): an absent key is generated from autoInc
insertValidated(db, tableName, rowD, err, numericPk, orAction, depth) ==
  LET table == db.snapshot.tables[tableName]
      pk == table.def.primaryKey
      generated == pk # NoPk /\ Get(rowD, pk) = Undefined
  IN IF err # "" THEN Thrown(db, err)
     ELSE IF generated /\ ~numericPk THEN Thrown(db, "PK_REQUIRED")
     ELSE insertKeyed(db, tableName,
                      IF generated THEN Put(rowD, pk, Num(table.autoInc)) ELSE rowD,
                      numericPk,
                      IF generated THEN table.autoInc + 1 ELSE table.autoInc,
                      orAction, depth)

\* the first message of a sequence of messages that is not "", "" when there is none
FirstError(errs) ==
  LET bad == {i \in 1..Len(errs) : errs[i] # ""}
  IN IF bad = {} THEN "" ELSE errs[SetMin(bad)]

\* the defaults are applied: the loop over the columns, then the CHECK constraints
insertDefaulted(db, tableName, row0, rowD, orAction, depth) ==
  insertValidated(db, tableName, rowD,
                  FirstError(<<InsertColumnError(db.snapshot.tables[tableName].def, row0, rowD),
                               validateChecks(db.snapshot.tables[tableName], rowD)>>),
                  NumericPk(db.snapshot.tables[tableName].def), orAction, depth)

\* the table exists: the row of the statement, with the defaults of the columns
insertEnsured(db, tableName, row0, orAction, depth) ==
  insertDefaulted(db, tableName, row0, WithDefaults(db.snapshot.tables[tableName].def, row0), orAction, depth)

insertRow(db0, tableName, columns, values, orAction, depth) ==
  insertEnsured(ensureTable(db0, tableName, inferColumnDefsFromInsert(columns)),
                tableName, RowOf(columns, values), orAction, depth)

\* after if (this.autoSave) this.save() returned r: its error is thrown, else the statement's result
saved(r, changes, rows) == IF r.err # "" THEN Fail(r.db, r.err) ELSE Ok(r.db, changes, rows)

\* this.lastChanges = 0; if (this.autoSave) this.save(); return { changes: 0 }
finishDdl(r) ==
  IF r.err # "" THEN r
  ELSE saved(autoSaveStep([r.db EXCEPT !.lastChanges = 0]), 0, <<>>)

\* counters that are written whether or not the statement threw
finishDmlCounted(r) ==
  IF r.err # "" THEN [r EXCEPT !.db.lastChanges = r.changes, !.db.totalChangesValue = @ + r.changes]
  ELSE saved(autoSaveStep([r.db EXCEPT !.lastChanges = r.changes, !.totalChangesValue = @ + r.changes]),
             r.changes, r.rows)

\* lastChanges, totalChangesValue and the automatic save after INSERT / UPDATE / DELETE
finishDml(r) ==
  IF r.err # "" THEN r
  ELSE saved(autoSaveStep([r.db EXCEPT !.lastChanges = r.changes, !.totalChangesValue = @ + r.changes]),
             r.changes, r.rows)

\* the VALUES loop of executeWithCtes: acc holds the rows inserted so far
RECURSIVE insertValues(_, _, _, _, _, _)
\* after insertRow returned r for the values at i: stop on its error, else go on with i + 1
thenInsertValues(r, q, insertColumns, i, acc, depth) ==
  IF r.err # "" THEN Fail(r.db, r.err)
  ELSE insertValues(r.db, q, insertColumns, i + 1, IF r.inserted THEN Append(acc, r.row) ELSE acc, depth)

insertValues(db, q, insertColumns, i, acc, depth) ==
  IF i > Len(q.values) THEN Ok(db, Len(acc), acc)
  ELSE IF Len(insertColumns) # Len(q.values[i]) THEN Fail(db, "LENGTH_MISMATCH")
  ELSE thenInsertValues(insertRow(db, q.table, insertColumns, q.values[i], q.or, depth),
                        q, insertColumns, i, acc, depth)

resolveInsertColumns(table, columns) ==
  IF columns # <<>> THEN columns ELSE [i \in 1..Len(table.def.columns) |-> table.def.columns[i].name]

\* INSERT ... DEFAULT VALUES: the result of its one insertRow
insertedDefaultValues(one) ==
  IF one.err # "" THEN Fail(one.db, one.err)
  ELSE Ok(one.db, IF one.inserted THEN 1 ELSE 0, IF one.inserted THEN <<one.row>> ELSE <<>>)

\* the rows of the statement, on the table ensureTable returned
insertRows(db, q, depth) ==
  IF q.defaultValues THEN insertedDefaultValues(insertRow(db, q.table, <<>>, <<>>, q.or, depth))
  ELSE insertValues(db, q, resolveInsertColumns(db.snapshot.tables[q.table], q.columns), 1, <<>>, depth)

\* case "insert" of executeWithCtes, after this.lastInsertId = null
insertInto(db, q, depth) ==
  IF ~HasTable(db.snapshot, q.table) /\ q.columns = <<>> THEN Fail(db, "INSERT_NEEDS_COLUMNS")
  ELSE finishDml(insertRows(ensureTable(db, q.table, inferColumnDefsFromInsert(q.columns)), q, depth))

\* case "insert" of executeWithCtes
executeInsert(db0, q, depth) == insertInto([db0 EXCEPT !.lastInsertId = Null], q, depth)

(***************************************************************************)
(* UPDATE and DELETE. The loops run over the stored rows by position; the  *)
(* trigger bodies explored do not write the table whose rows are looped.   *)
(***************************************************************************)
\* the first error update() throws for the row at position i, "" when it throws none
UpdateRowError(table, i, set, nextRow) ==
  LET def == table.def
      pk == def.primaryKey
      pkCol == primaryKeyColumn(def)
      others == (1..Len(table.rows)) \ {i}
      ErrorAt(c) ==
        IF IsNullish(Get(nextRow, def.columns[c].name)) /\ def.columns[c].notNull THEN "NOT_NULL"
        ELSE IF HasOwn(set, def.columns[c].name)
                /\ ~validateValueType(def.columns[c], Get(nextRow, def.columns[c].name)) THEN "TYPE"
        ELSE ""
      bad == {c \in 1..Len(def.columns) : ErrorAt(c) # ""}
  IN IF bad # {} THEN ErrorAt(SetMin(bad))
     ELSE IF validateChecks(table, nextRow) # "" THEN validateChecks(table, nextRow)
     ELSE IF pk # NoPk /\ HasOwn(set, pk) /\ pkCol # NoColumn /\ IsNumericType(pkCol.type) /\ set[pk].k # "number"
       THEN "PK_NOT_A_NUMBER"
     ELSE IF pk # NoPk /\ HasOwn(set, pk) /\ \E k \in others : ObjectIs(Get(table.rows[k], pk), set[pk])
       THEN "DUPLICATE_PK"
     ELSE IF \E c \in 1..Len(def.columns) :
                /\ def.columns[c].unique
                /\ HasOwn(set, def.columns[c].name)
                /\ \E k \in others :
                     ObjectIs(Get(table.rows[k], def.columns[c].name), Get(nextRow, def.columns[c].name))
       THEN "DUPLICATE_UNIQUE"
     ELSE IF \E u \in 1..Len(def.uniqueConstraints) :
                /\ \E j \in 1..Len(def.uniqueConstraints[u]) : HasOwn(set, def.uniqueConstraints[u][j])
                /\ \A j \in 1..Len(def.uniqueConstraints[u]) : HasOwn(nextRow, def.uniqueConstraints[u][j])
                /\ \E k \in others : rowMatchesUniqueConstraint(nextRow, table.rows[k], def.uniqueConstraints[u])
       THEN "DUPLICATE_UNIQUE_CONSTRAINT"
     ELSE ""

RECURSIVE updateFrom(_, _, _, _, _, _, _, _)
\* after the AFTER UPDATE triggers returned: updatedRows.push(row), next row
updateAfter(after, tableName, set, where, limit, i, updatedRows, depth) ==
  IF after.err # "" THEN Fail(after.db, after.err)
  ELSE updateFrom(after.db, tableName, set, where, limit, i + 1,
                  Append(updatedRows, after.db.snapshot.tables[tableName].rows[i]), depth)

\* after Object.assign(row, query.set): the AFTER UPDATE triggers
updateAssigned(assigned, row, tableName, set, where, limit, i, updatedRows, depth) ==
  updateAfter(fireTriggers(assigned, "AFTER", "UPDATE", tableName,
                           <<assigned.snapshot.tables[tableName].rows[i]>>, <<row>>, depth),
              tableName, set, where, limit, i, updatedRows, depth)

\* after the BEFORE UPDATE triggers returned: Object.assign(row, query.set)
updateBefore(before, row, tableName, set, where, limit, i, updatedRows, depth) ==
  IF before.err # "" THEN Fail(before.db, before.err)
  ELSE updateAssigned([before.db EXCEPT !.snapshot.tables[tableName].rows[i] = Spread(@, set)],
                      row, tableName, set, where, limit, i, updatedRows, depth)

\* a matching row: the validation of nextRow, then the BEFORE UPDATE triggers
updateRow(db, error, row, nextRow, tableName, set, where, limit, i, updatedRows, depth) ==
  IF error # "" THEN Fail(db, error)
  ELSE updateBefore(fireTriggers(db, "BEFORE", "UPDATE", tableName, <<nextRow>>, <<row>>, depth),
                    row, tableName, set, where, limit, i, updatedRows, depth)

updateFrom(db, tableName, set, where, limit, i, updatedRows, depth) ==
  LET table == db.snapshot.tables[tableName]
      changed == Len(updatedRows)
  IN IF i > Len(table.rows) \/ (limit # NoLimit /\ changed >= limit)
       THEN Ok(IF changed > 0 THEN [db EXCEPT !.dirty = TRUE] ELSE db, changed, updatedRows)
     ELSE IF ~rowMatchesWhere(table.rows[i], where, EmptyRow)
       THEN updateFrom(db, tableName, set, where, limit, i + 1, updatedRows, depth)
     ELSE updateRow(db, UpdateRowError(table, i, set, Spread(table.rows[i], set)),
                    table.rows[i], Spread(table.rows[i], set),
                    tableName, set, where, limit, i, updatedRows, depth)

update(db, tableName, set, where, limit, depth) ==
  IF ~HasTable(db.snapshot, tableName) THEN Ok(db, 0, <<>>)
  ELSE updateFrom(db, tableName, set, where, limit, 1, <<>>, depth)

RECURSIVE deleteFrom(_, _, _, _, _, _, _, _)
\* after the AFTER DELETE triggers returned: deleted.push(row), next row
deleteAfter(after, row, tableName, where, limit, i, kept, deleted, depth) ==
  IF after.err # "" THEN Fail(after.db, after.err)
  ELSE deleteFrom(after.db, tableName, where, limit, i + 1, kept, Append(deleted, row), depth)

\* after the BEFORE DELETE triggers returned: the AFTER DELETE triggers
deleteBefore(before, row, tableName, where, limit, i, kept, deleted, depth) ==
  IF before.err # "" THEN Fail(before.db, before.err)
  ELSE deleteAfter(fireTriggers(before.db, "AFTER", "DELETE", tableName, <<>>, <<row>>, depth),
                   row, tableName, where, limit, i, kept, deleted, depth)

deleteFrom(db, tableName, where, limit, i, kept, deleted, depth) ==
  LET table == db.snapshot.tables[tableName]
  IN IF i > Len(table.rows)
       THEN Ok([db EXCEPT !.snapshot.tables[tableName].rows = kept,
                          !.dirty = IF Len(deleted) > 0 THEN TRUE ELSE @], Len(deleted), deleted)
     ELSE IF (limit = NoLimit \/ Len(deleted) < limit) /\ rowMatchesWhere(table.rows[i], where, EmptyRow)
       THEN deleteBefore(fireTriggers(db, "BEFORE", "DELETE", tableName, <<>>, <<table.rows[i]>>, depth),
                         table.rows[i], tableName, where, limit, i, kept, deleted, depth)
     ELSE deleteFrom(db, tableName, where, limit, i + 1, Append(kept, table.rows[i]), deleted, depth)

delete(db, tableName, where, limit, depth) ==
  IF ~HasTable(db.snapshot, tableName) THEN Ok(db, 0, <<>>)
  ELSE deleteFrom(db, tableName, where, limit, 1, <<>>, <<>>, depth)

(***************************************************************************)
(* SELECT: FROM, the JOINs, WHERE, then the select list: a star, columns, *)
(* or aggregates over the groups. DISTINCT, HAVING, ORDER BY, OFFSET, LIMIT, *)
(* USING, subqueries and MIN / MAX are not in the statements explored; the *)
(* select lists explored pass the grouping validation.                     *)
(***************************************************************************)
\* columnKey / exprKey of a column expression
columnKey(ref) == IF ref.table # "" THEN Qualify(ref.table, ref.column) ELSE ref.column
\* `${expr.func}(${target})`
AggregateNames ==
  [COUNT |-> [star |-> "COUNT(*)", a |-> "COUNT(a)", id |-> "COUNT(id)"],
   SUM |-> [star |-> "SUM(*)", a |-> "SUM(a)", id |-> "SUM(id)"],
   AVG |-> [star |-> "AVG(*)", a |-> "AVG(a)", id |-> "AVG(id)"],
   MIN |-> [star |-> "MIN(*)", a |-> "MIN(a)", id |-> "MIN(id)"],
   MAX |-> [star |-> "MAX(*)", a |-> "MAX(a)", id |-> "MAX(id)"]]
exprKey(c) ==
  IF c.alias # "" THEN c.alias
  ELSE IF c.type = "column" THEN columnKey(c.ref)
  ELSE AggregateNames[c.func][IF c.ref = NoRef THEN "star" ELSE columnKey(c.ref)]

\* projectRow on column expressions: a key written twice keeps the later value
projectRow(row, columns) ==
  [key \in {exprKey(columns[i]) : i \in 1..Len(columns)} |->
     LET last == CHOOSE i \in 1..Len(columns) :
                   /\ exprKey(columns[i]) = key
                   /\ \A j \in (i + 1)..Len(columns) : exprKey(columns[j]) # key
     IN IF columns[last].type = "column" THEN resolveColumnValue(row, columns[last].ref, EmptyRow)
        ELSE Get(row, key)]

\* rowWithPrefixes(tableRef, source), fillUndefined = false
rowWithPrefixes(tableRef, source) ==
  LET aliases == {tableRef.alias, tableRef.name} \ {""}
      prefixed == {Qualify(t, key) : t \in aliases, key \in DOMAIN source}
  IN [x \in prefixed \cup DOMAIN source |->
        IF x \in DOMAIN source THEN source[x]
        ELSE source[CHOOSE key \in DOMAIN source : \E t \in aliases : Qualify(t, key) = x]]

getTableFromContext(db, name, ctes) ==
  IF name \in DOMAIN ctes THEN <<ctes[name]>>
  ELSE IF HasTable(db.snapshot, name) THEN <<db.snapshot.tables[name]>>
  ELSE <<>>

\* a row for the unmatched side that is not filled with nulls
emptyRightUnfilled(db, tableRef) == EmptyRow

\* rowWithPrefixes(tableRef, {}, true): null for every column of the stored table
emptyRightRow(db, tableRef) ==
  LET aliases == {tableRef.alias, tableRef.name} \ {""}
      names == IF HasTable(db.snapshot, tableRef.name)
                 THEN ColumnNamesOf(db.snapshot.tables[tableRef.name].def) ELSE {}
  IN [x \in {Qualify(t, c) : t \in aliases, c \in names} \cup names |-> Null]

\* { ...left }, then the keys of right that left does not have
mergeRows(left, right) == Spread(right, left)

nullRowFromRows(rows) == [key \in UNION {DOMAIN rows[i] : i \in 1..Len(rows)} |-> Null]

RECURSIVE joinMatches(_, _)
joinMatches(row, on) ==
  CASE on.type = "none" -> TRUE
    [] on.type = "clause" ->
         ObjectIs(resolveColumnValue(row, on.clause.left, EmptyRow), resolveColumnValue(row, on.clause.right, EmptyRow))
    [] on.type = "not" -> ~joinMatches(row, on.node)
    [] on.type = "and" -> joinMatches(row, on.left) /\ joinMatches(row, on.right)
    [] on.type = "or" -> joinMatches(row, on.left) \/ joinMatches(row, on.right)

\* one pass of the join loop over current and the rows of the joined table
joinRows(current, rightRows, emptyLeft, emptyRight, join) ==
  IF join.joinType = "CROSS"
    THEN Concat([i \in 1..Len(current) |-> [j \in 1..Len(rightRows) |-> mergeRows(current[i], rightRows[j])]])
  ELSE LET isRightJoin == join.joinType = "RIGHT"
           isFullJoin == join.joinType = "FULL"
           primaryRows == IF isRightJoin THEN rightRows ELSE current
           secondaryRows == IF isRightJoin THEN current ELSE rightRows
           Merged(p, i) == IF isRightJoin THEN mergeRows(secondaryRows[i], p) ELSE mergeRows(p, secondaryRows[i])
           MatchesOf(p) == {i \in 1..Len(secondaryRows) : joinMatches(Merged(p, i), join.on)}
           RowsFor(p) ==
             IF MatchesOf(p) # {}
               THEN [n \in 1..Cardinality(MatchesOf(p)) |-> Merged(p, Nth(MatchesOf(p), n))]
             ELSE IF ~isRightJoin /\ (join.joinType = "LEFT" \/ isFullJoin) THEN <<mergeRows(p, emptyRight)>>
             ELSE IF isRightJoin THEN <<mergeRows(emptyLeft, p)>>
             ELSE <<>>
           unmatched == {i \in 1..Len(secondaryRows) : \A k \in 1..Len(primaryRows) : i \notin MatchesOf(primaryRows[k])}
       IN Concat([k \in 1..Len(primaryRows) |-> RowsFor(primaryRows[k])])
          \o (IF isFullJoin
                THEN [n \in 1..Cardinality(unmatched) |-> mergeRows(emptyLeft, secondaryRows[Nth(unmatched, n)])]
                ELSE <<>>)

\* the rows of the joined table, as rowWithPrefixes builds them
rightRowsOf(rightTable, tableRef) ==
  IF rightTable = <<>> THEN <<>>
  ELSE [i \in 1..Len(rightTable[1].rows) |-> rowWithPrefixes(tableRef, rightTable[1].rows[i])]

\* for (const join of query.joins ?? [])
RECURSIVE joined(_, _, _, _, _)
joined(db, current, joins, k, ctes) ==
  IF k > Len(joins) THEN current
  ELSE joined(db,
              joinRows(current,
                       rightRowsOf(getTableFromContext(db, joins[k].table.name, ctes), joins[k].table),
                       nullRowFromRows(current), emptyRightRow(db, joins[k].table), joins[k]),
              joins, k + 1, ctes)

\* the rows that pass the WHERE clause
filterRows(current, where, outerRow) ==
  LET Matches(r) == rowMatchesWhere(r, where, outerRow)
  IN SelectSeq(current, Matches)

\* a quotient that is no integer, kept as its numerator and denominator
Fraction(sum, count) == [k |-> "fraction", v |-> sum * 100 + count]
Quotient(sum, count) == IF sum % count = 0 THEN Num(sum \div count) ELSE Fraction(sum, count)

\* compareForSort: negative, zero or positive. A number and a string are
\* compared by their JSON texts, where the quote of a string sorts first.
compareForSort(a, b) ==
  IF a = b THEN 0
  ELSE IF IsNullish(a) THEN -1
  ELSE IF IsNullish(b) THEN 1
  ELSE IF a.k = b.k THEN a.v - b.v
  ELSE IF a.k = "string" THEN -1
  ELSE 1

\* the loop of MIN: let min = null; for (const v of values) ...
RECURSIVE minFrom(_, _, _)
minFrom(values, i, min) ==
  IF i > Len(values) THEN min
  ELSE minFrom(values, i + 1, IF min = Null \/ compareForSort(values[i], min) < 0 THEN values[i] ELSE min)

\* the loop of MAX
RECURSIVE maxFrom(_, _, _)
maxFrom(values, i, max) ==
  IF i > Len(values) THEN max
  ELSE maxFrom(values, i + 1, IF max = Null \/ compareForSort(values[i], max) > 0 THEN values[i] ELSE max)

aggregateValue(rows, c) ==
  LET values == IF c.ref = NoRef THEN <<>> ELSE [i \in 1..Len(rows) |-> resolveColumnValue(rows[i], c.ref, EmptyRow)]
      numbers == {i \in 1..Len(values) : values[i].k = "number"}
      sum == SumOver(numbers, [i \in numbers |-> values[i].v])
  IN CASE c.func = "COUNT" ->
            IF c.ref = NoRef THEN Num(Len(rows))
            ELSE Num(Cardinality({i \in 1..Len(values) : ~IsNullish(values[i])}))
       [] c.func = "SUM" -> IF numbers = {} THEN Null ELSE Num(sum)
       [] c.func = "AVG" -> IF numbers = {} THEN Null ELSE Quotient(sum, Cardinality(numbers))
       [] c.func = "MIN" -> minFrom(values, 1, Null)
       [] c.func = "MAX" -> maxFrom(values, 1, Null)
       [] OTHER -> Null

\* a grouping without the group of an aggregate query over no rows
groupsOfRows(filtered, hasAggregates, groupBy) ==
  LET KeyOf(i) == [g \in 1..Len(groupBy) |-> resolveColumnValue(filtered[i], groupBy[g], EmptyRow)]
      firsts == {i \in 1..Len(filtered) : \A j \in 1..(i - 1) : KeyOf(j) # KeyOf(i)}
      SameKey(first) == {i \in 1..Len(filtered) : KeyOf(i) = KeyOf(first)}
  IN [n \in 1..Cardinality(firsts) |->
        [m \in 1..Cardinality(SameKey(Nth(firsts, n))) |-> filtered[Nth(SameKey(Nth(firsts, n)), m)]]]

\* the groups (Map<string, Row[]>), in the order of their first rows
groupsOf(filtered, hasAggregates, groupBy) ==
  IF Len(filtered) = 0 /\ hasAggregates /\ Len(groupBy) = 0 THEN << <<>> >>
  ELSE groupsOfRows(filtered, hasAggregates, groupBy)

\* the row of one group: the GROUP BY columns, then the select list
aggregated(rows, groupBy, columns) ==
  LET Grouped(key) == \E g \in 1..Len(groupBy) : columnKey(groupBy[g]) = key
      Listed(key) == \E i \in 1..Len(columns) : exprKey(columns[i]) = key
      LastOf(key) == CHOOSE i \in 1..Len(columns) :
                       exprKey(columns[i]) = key /\ \A j \in (i + 1)..Len(columns) : exprKey(columns[j]) # key
      LastGroup(key) == CHOOSE g \in 1..Len(groupBy) :
                          columnKey(groupBy[g]) = key /\ \A j \in (g + 1)..Len(groupBy) : columnKey(groupBy[j]) # key
      FirstValue(ref) == IF Len(rows) > 0 THEN resolveColumnValue(rows[1], ref, EmptyRow) ELSE Null
  IN [key \in {columnKey(groupBy[g]) : g \in 1..Len(groupBy)} \cup {exprKey(columns[i]) : i \in 1..Len(columns)} |->
        IF Listed(key)
          THEN IF columns[LastOf(key)].type = "column" THEN FirstValue(columns[LastOf(key)].ref)
               ELSE aggregateValue(rows, columns[LastOf(key)])
          ELSE FirstValue(groupBy[LastGroup(key)])]

\* projectSelectRow on column and aggregate expressions
projectSelectRow(row, columns, outerRow) ==
  [key \in {exprKey(columns[i]) : i \in 1..Len(columns)} |->
     LET last == CHOOSE i \in 1..Len(columns) :
                   exprKey(columns[i]) = key /\ \A j \in (i + 1)..Len(columns) : exprKey(columns[j]) # key
     IN IF columns[last].type = "column" THEN resolveColumnValue(row, columns[last].ref, outerRow)
        ELSE Get(row, key)]

\* one output row per group
groupRows(grouped, query, outerRow) ==
  [n \in 1..Len(grouped) |-> projectSelectRow(aggregated(grouped[n], query.groupBy, query.columns), query.columns, outerRow)]

compareForSortWithNulls(a, b, nulls) ==
  IF nulls # "" /\ IsNullish(a) /\ IsNullish(b) THEN 0
  ELSE IF nulls # "" /\ IsNullish(a) THEN (IF nulls = "FIRST" THEN -1 ELSE 1)
  ELSE IF nulls # "" /\ IsNullish(b) THEN (IF nulls = "FIRST" THEN 1 ELSE -1)
  ELSE compareForSort(a, b)

\* the comparator handed to sort: the first key that tells the rows apart decides
RECURSIVE compareRows(_, _, _, _)
compareRows(ra, rb, specs, k) ==
  IF k > Len(specs) THEN 0
  ELSE IF compareForSortWithNulls(resolveColumnValue(ra, specs[k].ref, EmptyRow),
                                  resolveColumnValue(rb, specs[k].ref, EmptyRow), specs[k].nulls) = 0
    THEN compareRows(ra, rb, specs, k + 1)
  ELSE IF specs[k].direction = "DESC"
    THEN 0 - compareForSortWithNulls(resolveColumnValue(ra, specs[k].ref, EmptyRow),
                                     resolveColumnValue(rb, specs[k].ref, EmptyRow), specs[k].nulls)
  ELSE compareForSortWithNulls(resolveColumnValue(ra, specs[k].ref, EmptyRow),
                               resolveColumnValue(rb, specs[k].ref, EmptyRow), specs[k].nulls)

\* Array.prototype.sort (stable): row i goes behind the rows that sort before
\* it and the earlier rows that sort equal to it
sortRows(out, specs) ==
  [n \in 1..Len(out) |->
     out[CHOOSE i \in 1..Len(out) :
           Cardinality({j \in 1..Len(out) : compareRows(out[j], out[i], specs, 1) < 0
                                              \/ (compareRows(out[j], out[i], specs, 1) = 0 /\ j < i)}) = n - 1]]

\* ORDER BY by column keys; position references are not modelled
ordered(out, query) == IF Len(query.orderBy) > 0 THEN sortRows(out, query.orderBy) ELSE out

\* the select list applied to the filtered rows
selectOut(query, filtered, outerRow, hasAggregates) ==
  IF query.all THEN filtered
  ELSE IF ~hasAggregates /\ Len(query.groupBy) = 0
    THEN [i \in 1..Len(filtered) |-> projectSelectRow(filtered[i], query.columns, outerRow)]
  ELSE groupRows(groupsOf(filtered, hasAggregates, query.groupBy), query, outerRow)

selectFrom(db, baseTable, query, outerRow, ctes) ==
  IF baseTable = <<>> THEN <<>>
  ELSE ordered(selectOut(query,
                 filterRows(joined(db, [i \in 1..Len(baseTable[1].rows) |-> rowWithPrefixes(query.from, baseTable[1].rows[i])],
                                   query.joins, 1, ctes),
                            query.where, outerRow),
                 outerRow,
                 ~query.all /\ \E i \in 1..Len(query.columns) : query.columns[i].type = "aggregate"), query)

select(db, query, outerRow, ctes) ==
  selectFrom(db, getTableFromContext(db, query.from.name, ctes), query, outerRow, ctes)

(***************************************************************************)
(* The executor.                                                           *)
(***************************************************************************)
createTrigger(db, q) ==
  IF \E i \in 1..Len(db.snapshot.triggers) : db.snapshot.triggers[i].name = q.trigger.name
    THEN Fail(db, "TRIGGER_EXISTS")
  ELSE saved(autoSaveStep([db EXCEPT !.snapshot.triggers = Append(@, q.trigger),
                                     !.lastChanges = 0, !.dirty = TRUE]), 0, <<>>)

\* the triggers left once the named one is filtered out
dropTriggerTo(db, q, next) ==
  IF Len(next) = Len(db.snapshot.triggers) /\ ~q.ifExists THEN Fail(db, "TRIGGER_NOT_FOUND")
  ELSE saved(autoSaveStep([db EXCEPT !.snapshot.triggers = next, !.lastChanges = 0,
                                     !.dirty = IF Len(next) # Len(db.snapshot.triggers) THEN TRUE ELSE @]),
             0, <<>>)

dropTrigger(db, q) ==
  LET Other(t) == t.name # q.name
  IN dropTriggerTo(db, q, SelectSeq(db.snapshot.triggers, Other))

\* a RETURNING that gives the first affected row only
projectReturningFirst(rows, spec) == IF Len(rows) > 1 THEN <<rows[1]>> ELSE rows

projectReturningRows(rows, spec) ==
  IF spec.all THEN rows ELSE [i \in 1..Len(rows) |-> projectRow(rows[i], spec.columns)]

\* if (query.returning) return { changes, rows: projectReturningRows(...) }; return { changes }
returned(q, r) ==
  IF r.err # "" THEN r
  ELSE [r EXCEPT !.rows = IF q.returning = NoReturning THEN <<>> ELSE projectReturningRows(@, q.returning)]

alterTable(db, q) ==
  CASE q.action.type = "add" -> alterTableAddColumn(db, q.table, q.action.column)
    [] q.action.type = "rename" -> alterTableRenameColumn(db, q.table, q.action.from, q.action.to)
    [] OTHER -> alterTableDropColumn(db, q.table, q.action.column)

executeWithCtes(db, q, ctes, depth) ==
  CASE q.type = "createTable" -> finishDdl(createTable(db, q))
    [] q.type = "createTrigger" -> createTrigger(db, q)
    [] q.type = "dropTrigger" -> dropTrigger(db, q)
    [] q.type = "dropTable" -> finishDdl(dropTable(db, q))
    [] q.type = "alterTable" -> finishDdl(alterTable(db, q))
    [] q.type = "insert" -> returned(q, executeInsert(db, q, depth))
    [] q.type = "select" -> Ok([db EXCEPT !.lastChanges = 0], 0, select(db, q, EmptyRow, ctes))
    [] q.type = "update" -> returned(q, finishDml(update(db, q.table, q.set, q.where, q.limit, depth)))
    [] q.type = "delete" -> returned(q, finishDml(delete(db, q.table, q.where, q.limit, depth)))

\* WorldSqlDatabase.exec / query: parseSql, then execute
execute(db, q) == executeWithCtes(db, q, NoCtes, 0)

(***************************************************************************)
(* transaction(fn): fn is a sequence of statements run through exec, that  *)
(* throws on its own after them when throws is set.                        *)
(***************************************************************************)
RECURSIVE runStatements(_, _, _)
\* after statement i returned r: its error leaves fn, else statement i + 1
thenRunStatements(r, statements, i) ==
  IF r.err # "" THEN Fail(r.db, r.err) ELSE runStatements(r.db, statements, i + 1)

runStatements(db, statements, i) ==
  IF i > Len(statements) THEN Ok(db, 0, <<>>)
  ELSE thenRunStatements(execute(db, statements[i]), statements, i)

\* fn's own throw after its statements
thrownBy(out, throws) == IF out.err = "" /\ throws THEN Fail(out.db, "THROWN") ELSE out

\* a catch block that does not restore the snapshot
rollbackKeepsSnapshot(db, before, dirtyBefore, err) == Fail([db EXCEPT !.dirty = dirtyBefore], err)

\* the catch block: snapshot = JSON.parse(before); dirty = dirtyBefore; throw e
rollback(db, before, dirtyBefore, err) ==
  Fail([db EXCEPT !.snapshot = JSONparse(before), !.dirty = dirtyBefore], err)

\* after if (this.autoSave) this.save() in the try block
transactionSaved(r, before, dirtyBefore) ==
  IF r.err # "" THEN rollback(r.db, before, dirtyBefore, r.err) ELSE Ok(r.db, 0, <<>>)

\* after fn returned or threw
transactionRan(ran, before, dirtyBefore) ==
  IF ran.err # "" THEN rollback(ran.db, before, dirtyBefore, ran.err)
  ELSE transactionSaved(autoSaveStep(ran.db), before, dirtyBefore)

transaction(db, statements, throws) ==
  transactionRan(thrownBy(runStatements(db, statements, 1), throws), JSONstringify(db.snapshot), db.dirty)

(***************************************************************************)
(* import(json) on the text export() produced.                             *)
(***************************************************************************)
\* after this.save() in import's try block
importSaved(r) == IF r.err # "" THEN Fail(r.db, "IMPORT_FAILED") ELSE Ok(r.db, 0, <<>>)

\* the parsed text: a version other than 1 is refused
importParsed(db, parsed) ==
  IF parsed.v # 1 THEN Fail(db, "IMPORT_FAILED")
  ELSE importSaved(autoSaveStep([db EXCEPT !.snapshot = parsed, !.dirty = TRUE]))

import(db, json) == importParsed(db, JSONparse(json))

(***************************************************************************)
(* The statements explored.                                                *)
(***************************************************************************)
Values == {Null} \cup {Num(n) : n \in 1..MaxNum}

\* id INTEGER PRIMARY KEY
IdPk == [Col("id", "INTEGER") EXCEPT !.primaryKey = TRUE]
\* a INTEGER UNIQUE
AUnique == [Col("a", "INTEGER") EXCEPT !.unique = TRUE]
\* a INTEGER NOT NULL CHECK (a <= 1)
AChecked == [Col("a", "INTEGER") EXCEPT !.notNull = TRUE, !.check = Clause("a", "<=", Num(1))]
\* b INTEGER DEFAULT 1
BDefault == [Col("b", "INTEGER") EXCEPT !.default = Num(1)]
\* id INTEGER PRIMARY KEY DEFAULT 1
IdPkDefault == [Col("id", "INTEGER") EXCEPT !.primaryKey = TRUE, !.default = Num(1)]

\* CREATE TABLE t (id INTEGER PRIMARY KEY, a INTEGER UNIQUE)
\* CREATE TABLE t (a INTEGER NOT NULL CHECK (a <= 1), b INTEGER DEFAULT 1, UNIQUE (a, b), CHECK (b != 2))
CreateStmts ==
  { CreateTable("t", <<IdPk, AUnique>>, <<>>, <<>>),
    CreateTable("t", <<AChecked, BDefault>>, << <<"a", "b">> >>, <<Clause("b", "!=", Num(2))>>) }

AlterStmts ==
  { AlterAdd("t", Col("c", "INTEGER")), AlterAdd("t", IdPkDefault),
    AlterRename("t", "c", "z"), AlterDrop("t", "c") }

\* CREATE TRIGGER audit AFTER INSERT ON t BEGIN INSERT INTO log (tid) VALUES (NEW.id); END
AuditTrigger == CreateTrigger("audit", "t", "AFTER", "INSERT", <<Insert("log", <<"tid">>, << <<TriggerRef("NEW", "id")>> >>, "")>>)

TriggerStmts == {AuditTrigger, DropTrigger("audit")}

OrActions == {"", "REPLACE", "IGNORE"}

InsertStmts ==
  {Insert("t", <<>>, << <<v, w>> >>, or) : v \in Values, w \in Values, or \in OrActions}
  \cup {Insert("t", <<"a">>, << <<v>> >>, or) : v \in Values, or \in OrActions}

Wheres == {NoNode, Clause("a", "=", Num(1))}

UpdateStmts ==
  {Update("t", [c \in {col} |-> v], w) : col \in {"id", "a", "c"}, v \in Values, w \in Wheres}

DeleteStmts == {Delete("t", w) : w \in Wheres}

\* ON t.id = log.tid, ON a = tid
JoinConditions == {On([table |-> "t", column |-> "id"], [table |-> "log", column |-> "tid"]), On(Ref("a"), Ref("tid"))}
JoinTypes == {"LEFT", "INNER"}
\* SELECT * FROM a <type> JOIN b ON <cond>, for the two tables in both orders
JoinStmts ==
  {Join(SelectStar(tables[1], NoNode), type, tables[2], on) :
     tables \in {<<"t", "log">>, <<"log", "t">>}, type \in JoinTypes, on \in JoinConditions}

SelectStmts == {SelectStar("t", w) : w \in Wheres} \cup JoinStmts

\* RETURNING * and RETURNING a
ReturnSpecs == {ReturningStar, ReturningColumns(<<ColumnAs("a", "")>>)}
UpdateReturningStmts == {Returning(q, spec) : q \in UpdateStmts, spec \in ReturnSpecs}

DmlStmts == InsertStmts \cup UpdateStmts \cup UpdateReturningStmts \cup DeleteStmts

\* the callbacks given to transaction(): the statements they run, in order
TxnStmts ==
  { Insert("t", <<"a">>, << <<Num(1)>> >>, ""),
    Update("t", [c \in {"a"} |-> Num(2)], NoNode),
    Delete("t", Clause("a", "=", Num(1))) }
TxnBodies == {<<q>> : q \in TxnStmts} \cup {<<q, r>> : q \in TxnStmts, r \in TxnStmts}

(***************************************************************************)
(* fmbe-manager: the groups module (groups.ts) and the runtime tick        *)
(* (runtime.ts, scoreboard.ts). A Set and a Map are unordered here; where  *)
(* the code lists one, the model lists it in the sorted order.             *)
(***************************************************************************)
GroupOrder == <<"teamA", "teamB", "teamC">>
GroupNames == {GroupOrder[i] : i \in DOMAIN GroupOrder}
RecordOrder == <<"r1", "r2">>
RecordIds == {RecordOrder[i] : i \in DOMAIN RecordOrder}

\* the elements of S in the order of order
Listed(S, order) == SelectSeq(order, LAMBDA x : x \in S)

NoGroups == [n \in {} |-> {}]

\* the module state of groups.ts: loaded, groups, and the world property STORE_KEY
GroupsModule(isLoaded, map, property) == [loaded |-> isLoaded, groups |-> map, property |-> property]
GroupsSelf == GroupsModule(loaded, groups, groupsProperty)

\* JSON.stringify(snapshot) of save / JSON.parse(raw) of ensureLoaded: the
\* text holds one member per group, its ids as an array
stringifyGroups(map) == {<<n, Listed(map[n], RecordOrder)>> : n \in DOMAIN map}
parseGroups(text) ==
  [n \in {m[1] : m \in text} |-> {(CHOOSE m \in text : m[1] = n)[2][i] : i \in DOMAIN (CHOOSE m \in text : m[1] = n)[2]}]

ensureLoaded(g) ==
  IF g.loaded THEN g
  ELSE IF ~g.property.defined THEN [g EXCEPT !.loaded = TRUE]
  ELSE [g EXCEPT !.groups = parseGroups(g.property.value), !.loaded = TRUE]

\* save() of groups.ts
saveGroups(g) == [g EXCEPT !.property = Property(stringifyGroups(g.groups))]

\* for (const [, members] of groups) members.delete(recordId)
withoutRecord(map, recordId) == [n \in DOMAIN map |-> map[n] \ {recordId}]

\* target.add(recordId), the group created when missing
withRecord(map, recordId, groupName) ==
  [n \in DOMAIN map \cup {groupName} |->
     IF n = groupName THEN (IF n \in DOMAIN map THEN map[n] ELSE {}) \cup {recordId}
     ELSE map[n]]

listGroups(g) == Listed(DOMAIN ensureLoaded(g).groups, GroupOrder)
hasGroup(g, groupName) == groupName \in DOMAIN ensureLoaded(g).groups

created(g, groupName) ==
  IF groupName \in DOMAIN g.groups THEN g
  ELSE saveGroups([g EXCEPT !.groups = [n \in DOMAIN g.groups \cup {groupName} |->
                                           IF n = groupName THEN {} ELSE g.groups[n]]])
createGroup(g, groupName) == created(ensureLoaded(g), groupName)

deleted(g, groupName) ==
  IF groupName \notin DOMAIN g.groups THEN g
  ELSE saveGroups([g EXCEPT !.groups = [n \in DOMAIN g.groups \ {groupName} |-> g.groups[n]]])
deleteGroup(g, groupName) == deleted(ensureLoaded(g), groupName)

getGroupMembersOf(g, groupName) ==
  IF groupName \notin DOMAIN g.groups THEN <<>> ELSE Listed(g.groups[groupName], RecordOrder)
getGroupMembers(g, groupName) == getGroupMembersOf(ensureLoaded(g), groupName)

\* setRecordGroup leaving the id in the group it was in
recordGroupAdded(g, recordId, groupName) ==
  saveGroups([g EXCEPT !.groups = withRecord(g.groups, recordId, groupName)])

recordGroupSet(g, recordId, groupName) ==
  saveGroups([g EXCEPT !.groups = withRecord(withoutRecord(g.groups, recordId), recordId, groupName)])
setRecordGroup(g, recordId, groupName) == recordGroupSet(ensureLoaded(g), recordId, groupName)

recordGroupCleared(g, recordId) ==
  IF \E n \in DOMAIN g.groups : recordId \in g.groups[n]
    THEN saveGroups([g EXCEPT !.groups = withoutRecord(g.groups, recordId)])
  ELSE g
clearRecordGroup(g, recordId) == recordGroupCleared(ensureLoaded(g), recordId)
removeRecordFromGroups(g, recordId) == clearRecordGroup(g, recordId)

(***************************************************************************)
(* The runtime tick. A score is an integer or unset; a coordinate is kept  *)
(* in thousandths, so fromScore and toScore keep the number. A record is   *)
(* its x coordinate; a target other than x changes a field left out here.  *)
(***************************************************************************)
NoScore == [defined |-> FALSE, value |-> 0]
Score(value) == [defined |-> TRUE, value |-> value]
SCALE == 1000
fromScore(value) == value
toScore(value) == value

NoOperationScores == [seq |-> NoScore, target |-> NoScore, type |-> NoScore, value |-> NoScore]
NoOperation == [defined |-> FALSE, seq |-> 0, target |-> "", type |-> "", value |-> 0]

\* GROUP_TARGET_MAP and GROUP_OPERATION_TYPE_MAP, "" for a code that is no key
GROUP_TARGET_MAP(code) ==
  IF code = 15 THEN "x" ELSE IF code \in 1..17 THEN "other" ELSE ""
GROUP_OPERATION_TYPE_MAP(code) ==
  IF code = 1 THEN "add" ELSE IF code = 2 THEN "sub" ELSE IF code = 3 THEN "mul" ELSE IF code = 4 THEN "div" ELSE ""

readGroupOperation(s) ==
  IF ~s.seq.defined THEN NoOperation
  ELSE IF ~s.target.defined \/ ~s.type.defined \/ ~s.value.defined THEN NoOperation
  ELSE IF GROUP_TARGET_MAP(s.target.value) = "" \/ GROUP_OPERATION_TYPE_MAP(s.type.value) = "" THEN NoOperation
  ELSE [defined |-> TRUE, seq |-> s.seq.value, target |-> GROUP_TARGET_MAP(s.target.value),
        type |-> GROUP_OPERATION_TYPE_MAP(s.type.value), value |-> fromScore(s.value.value)]

applyOperation(current, operation) ==
  IF operation.type = "add" THEN current + operation.value
  ELSE IF operation.type = "sub" THEN current - operation.value
  ELSE IF operation.type = "mul" THEN (current * operation.value) \div SCALE
  ELSE IF operation.type = "div" THEN (IF operation.value = 0 THEN current ELSE (current * SCALE) \div operation.value)
  ELSE current

applyGroupRelativeOperation(record, operation) ==
  IF operation.target = "x" THEN [record EXCEPT !.x = applyOperation(record.x, operation)]
  ELSE record

\* the state the tick works on: the groups module, the scores, the caches,
\* the records of the database, and how often the tick applied an operation
\* to each record
Runtime(g, ops, locationX, seqCache, snapshotCache, recs, applied) ==
  [g |-> g, ops |-> ops, locationX |-> locationX, seqCache |-> seqCache, snapshotCache |-> snapshotCache,
   records |-> recs, applied |-> applied]

NotApplied == [id \in RecordIds |-> 0]

\* cache.set(key, value)
MapSet(map, key, value) == [k \in DOMAIN map \cup {key} |-> IF k = key THEN value ELSE map[k]]
\* the cache without the keys that are no group
MapKeep(map, keys) == [k \in DOMAIN map \cap keys |-> map[k]]

\* the member loop of applyGroupRelativeOperations from member j on
RECURSIVE applyToMembers(_, _, _, _)
applyToMembers(rt, memberIds, j, operation) ==
  IF j > Len(memberIds) THEN rt
  ELSE IF memberIds[j] \notin DOMAIN rt.records
    THEN applyToMembers([rt EXCEPT !.g = removeRecordFromGroups(rt.g, memberIds[j])], memberIds, j + 1, operation)
  ELSE applyToMembers([rt EXCEPT !.records[memberIds[j]] = applyGroupRelativeOperation(rt.records[memberIds[j]], operation),
                                 !.applied[memberIds[j]] = rt.applied[memberIds[j]] + 1],
                      memberIds, j + 1, operation)

\* the body of the group loop of applyGroupRelativeOperations
groupOperation(rt, groupName, operation) ==
  IF ~operation.defined THEN rt
  ELSE IF groupName \notin DOMAIN rt.seqCache THEN [rt EXCEPT !.seqCache = MapSet(rt.seqCache, groupName, operation.seq)]
  ELSE IF rt.seqCache[groupName] = operation.seq THEN rt
  ELSE applyToMembers([rt EXCEPT !.seqCache = MapSet(rt.seqCache, groupName, operation.seq)],
                      getGroupMembers(rt.g, groupName), 1, operation)

RECURSIVE applyOperationsFrom(_, _, _)
applyOperationsFrom(rt, names, i) ==
  IF i > Len(names) THEN rt
  ELSE applyOperationsFrom(groupOperation(rt, names[i], readGroupOperation(rt.ops[names[i]])), names, i + 1)

operationsApplied(rt, names) ==
  [applyOperationsFrom(rt, names, 1) EXCEPT !.seqCache = MapKeep(@, {names[i] : i \in DOMAIN names})]

applyGroupRelativeOperations(rt) ==
  operationsApplied([rt EXCEPT !.g = ensureLoaded(rt.g)], listGroups(rt.g))

\* readGroupScores(groupName, fallback).record, its x coordinate
readGroupScores(rt, groupName, fallback) ==
  IF rt.locationX[groupName].defined /\ fromScore(rt.locationX[groupName].value) # fallback.x
    THEN [fallback EXCEPT !.x = fromScore(rt.locationX[groupName].value)]
  ELSE fallback

\* the member loop of applyGroupScoreChanges
RECURSIVE copyToMembers(_, _, _, _)
copyToMembers(rt, memberIds, j, read) ==
  IF j > Len(memberIds) THEN rt
  ELSE IF memberIds[j] \notin DOMAIN rt.records
    THEN copyToMembers([rt EXCEPT !.g = removeRecordFromGroups(rt.g, memberIds[j])], memberIds, j + 1, read)
  ELSE copyToMembers([rt EXCEPT !.records[memberIds[j]] = read], memberIds, j + 1, read)

groupScoresRead(rt, groupName, memberIds, read) ==
  IF read = rt.snapshotCache[groupName] THEN rt
  ELSE copyToMembers([rt EXCEPT !.snapshotCache[groupName] = read], memberIds, 1, read)

\* the body of the group loop of applyGroupScoreChanges
groupScoreChange(rt, groupName, memberIds, present) ==
  IF present = <<>> THEN rt
  ELSE IF groupName \notin DOMAIN rt.snapshotCache
    THEN [rt EXCEPT !.locationX[groupName] = Score(toScore(rt.records[present[1]].x)),
                    !.snapshotCache = MapSet(rt.snapshotCache, groupName, rt.records[present[1]])]
  ELSE groupScoresRead(rt, groupName, memberIds, readGroupScores(rt, groupName, rt.records[present[1]]))

RECURSIVE applyScoreChangesFrom(_, _, _)
applyScoreChangesFrom(rt, names, i) ==
  IF i > Len(names) THEN rt
  ELSE applyScoreChangesFrom(
         groupScoreChange(rt, names[i], getGroupMembers(rt.g, names[i]),
                          SelectSeq(getGroupMembers(rt.g, names[i]), LAMBDA id : id \in DOMAIN rt.records)),
         names, i + 1)

scoreChangesApplied(rt, names) ==
  [applyScoreChangesFrom(rt, names, 1) EXCEPT !.snapshotCache = MapKeep(@, {names[i] : i \in DOMAIN names})]

applyGroupScoreChanges(rt) == scoreChangesApplied(rt, listGroups(rt.g))

\* the callback of registerRuntimeSync, with no managed entity loaded
runtimeTick(rt) == applyGroupScoreChanges(applyGroupRelativeOperations(rt))

(***************************************************************************)
(* The groups module and the tick as state machines.                       *)
(***************************************************************************)
managerVars == <<loaded, groups, groupsProperty, opScores, groupLocationX, groupOperationSeqCache,
                 groupSnapshotCache, fmbeRecords, lastTick>>
engineVars == <<snapshot, dirty, lastInsertId, lastChanges, totalChangesValue, autoSave, stored,
                inputSql, inputParams, parserResult, properties, lastSave, storeCall, callStack>>

NoTick ==
  [ran |-> FALSE, seq |-> [n \in GroupNames |-> NoScore], changed |-> {}, unchanged |-> {},
   members |-> NoGroups, applied |-> NotApplied]

\* the scripts not started on a world without groups, scores and records
ManagerIdle ==
  /\ loaded = FALSE
  /\ groups = NoGroups
  /\ groupsProperty = NoProperty
  /\ opScores = [n \in GroupNames |-> NoOperationScores]
  /\ groupLocationX = [n \in GroupNames |-> NoScore]
  /\ groupOperationSeqCache = [n \in {} |-> 0]
  /\ groupSnapshotCache = [n \in {} |-> 0]
  /\ fmbeRecords = [id \in {} |-> 0]
  /\ lastTick = NoTick

EngineIdle ==
  /\ snapshot = emptySnapshot
  /\ dirty = FALSE
  /\ lastInsertId = Null
  /\ lastChanges = 0
  /\ totalChangesValue = 0
  /\ autoSave = FALSE
  /\ stored = NoData
  /\ inputSql = <<>>
  /\ inputParams = <<>>
  /\ parserResult = [stage |-> "none"]
  /\ properties = NoProperties
  /\ lastSave = [text |-> NoProperty, thrownSince |-> FALSE]
  /\ storeCall = [op |-> "none", threw |-> FALSE, result |-> NoProperty]
  /\ callStack = <<>>

GroupsInit == EngineIdle /\ ManagerIdle

GroupsBecome(g) ==
  /\ loaded' = g.loaded
  /\ groups' = g.groups
  /\ groupsProperty' = g.property
  /\ UNCHANGED <<opScores, groupLocationX, groupOperationSeqCache, groupSnapshotCache, fmbeRecords, lastTick>>
  /\ UNCHANGED engineVars

CreateGroup == \E n \in GroupNames : GroupsBecome(createGroup(GroupsSelf, n))
DeleteGroup == \E n \in GroupNames : GroupsBecome(deleteGroup(GroupsSelf, n))
SetRecordGroup == \E id \in RecordIds, n \in GroupNames : GroupsBecome(setRecordGroup(GroupsSelf, id, n))
ClearRecordGroup == \E id \in RecordIds : GroupsBecome(clearRecordGroup(GroupsSelf, id))
\* the scripts started again: the module state is new, the world property stays
Reload == GroupsBecome(GroupsModule(FALSE, NoGroups, groupsProperty))

GroupsNext == CreateGroup \/ DeleteGroup \/ SetRecordGroup \/ ClearRecordGroup \/ Reload

GroupsSpec == GroupsInit /\ [][GroupsNext]_vars

\* the group the commands of the tick model address, the codes and values they set
OperatedGroups == {"teamA"}
OpTargetCodes == {2, 15, 18}
OpTypeCodes == {1, 2, 3, 4, 5}
OpValues == {0, 1000}

RuntimeSelf ==
  Runtime(GroupsSelf, opScores, groupLocationX, groupOperationSeqCache, groupSnapshotCache, fmbeRecords, NotApplied)

\* a world holding the group teamA with some of the records, the scripts just started
RuntimeInit ==
  /\ EngineIdle
  /\ loaded = FALSE
  /\ groups = NoGroups
  /\ \E members \in SUBSET RecordIds : groupsProperty = Property(stringifyGroups([n \in OperatedGroups |-> members]))
  /\ opScores = [n \in GroupNames |-> NoOperationScores]
  /\ groupLocationX = [n \in GroupNames |-> NoScore]
  /\ groupOperationSeqCache = [n \in {} |-> 0]
  /\ groupSnapshotCache = [n \in {} |-> 0]
  /\ fmbeRecords = [id \in RecordIds |-> [x |-> 0]]
  /\ lastTick = NoTick

\* scoreboard players set fmbe:group:<name> <objective> <value>
ScoreSet(n, objective, value) ==
  /\ opScores' = [opScores EXCEPT ![n][objective] = Score(value)]
  /\ UNCHANGED <<loaded, groups, groupsProperty, groupLocationX, groupOperationSeqCache, groupSnapshotCache,
                 fmbeRecords, lastTick>>
  /\ UNCHANGED engineVars

SetOpTarget == \E n \in OperatedGroups, code \in OpTargetCodes : ScoreSet(n, "target", code)
SetOpType == \E n \in OperatedGroups, code \in OpTypeCodes : ScoreSet(n, "type", code)
SetOpValue == \E n \in OperatedGroups, value \in OpValues : ScoreSet(n, "value", value)
\* scoreboard players add fmbe:group:<name> fmbe:group:OpSeq 1
AddOpSeq ==
  \E n \in OperatedGroups :
     /\ opScores[n].seq.value < MaxSeq
     /\ ScoreSet(n, "seq", opScores[n].seq.value + 1)

\* the groups with a readable operation at a tick
Operated(g) == {n \in DOMAIN g.groups : readGroupOperation(opScores[n]).defined}

\* what a tick did, next to what the world looked like when it ran
TickOf(rt, g) ==
  [ran |-> TRUE,
   seq |-> [n \in GroupNames |-> opScores[n].seq],
   changed |-> {n \in Operated(g) : opScores[n].seq # lastTick.seq[n]},
   unchanged |-> {n \in Operated(g) : opScores[n].seq = lastTick.seq[n]},
   members |-> g.groups,
   applied |-> rt.applied]

TickRan(rt) ==
  /\ loaded' = rt.g.loaded
  /\ groups' = rt.g.groups
  /\ groupsProperty' = rt.g.property
  /\ groupLocationX' = rt.locationX
  /\ groupOperationSeqCache' = rt.seqCache
  /\ groupSnapshotCache' = rt.snapshotCache
  /\ fmbeRecords' = rt.records
  /\ lastTick' = TickOf(rt, ensureLoaded(GroupsSelf))
  /\ UNCHANGED opScores
  /\ UNCHANGED engineVars

Tick == TickRan(runtimeTick(RuntimeSelf))

RuntimeNext == SetOpTarget \/ SetOpType \/ SetOpValue \/ AddOpSeq \/ Tick

RuntimeSpec == RuntimeInit /\ [][RuntimeNext]_vars

(***************************************************************************)
(* The facade as a state machine.                                          *)
(***************************************************************************)
\* a newly constructed WorldSqlDatabase over an empty store
Fresh ==
  [snapshot |-> emptySnapshot, dirty |-> FALSE, lastInsertId |-> Null,
   lastChanges |-> 0, totalChangesValue |-> 0, stored |-> NoData]

\* the model's bounds, on the state a call leaves
WithinBounds(db) ==
  /\ \A n \in DOMAIN db.snapshot.tables :
       /\ Len(db.snapshot.tables[n].rows) <= MaxRows
       /\ Len(db.snapshot.tables[n].def.columns) <= MaxColumns
       /\ db.snapshot.tables[n].autoInc <= MaxAutoInc
  /\ db.totalChangesValue <= MaxTotalChanges

\* the fields of the facade after a call that returned or threw r
Becomes(r) ==
  /\ WithinBounds(r.db)
  /\ snapshot' = r.db.snapshot
  /\ dirty' = r.db.dirty
  /\ lastInsertId' = r.db.lastInsertId
  /\ lastChanges' = r.db.lastChanges
  /\ totalChangesValue' = r.db.totalChangesValue
  /\ stored' = r.db.stored
  /\ UNCHANGED <<autoSave, inputSql, inputParams, parserResult, properties, lastSave, storeCall, callStack>>
  /\ UNCHANGED managerVars

Init ==
  /\ snapshot = emptySnapshot
  /\ dirty = FALSE
  /\ lastInsertId = Null
  /\ lastChanges = 0
  /\ totalChangesValue = 0
  /\ autoSave \in BOOLEAN
  /\ stored = NoData
  /\ inputSql = <<>>
  /\ inputParams = <<>>
  /\ parserResult = [stage |-> "none"]
  /\ properties = NoProperties
  /\ lastSave = [text |-> NoProperty, thrownSince |-> FALSE]
  /\ storeCall = [op |-> "none", threw |-> FALSE, result |-> NoProperty]
  /\ callStack = <<>>
  /\ ManagerIdle

\* exec(sql) of a schema statement
ExecDdl == \E q \in CreateStmts \cup AlterStmts \cup TriggerStmts : Becomes(execute(Self, q))

\* exec(sql) of INSERT, UPDATE or DELETE, on a table the caller has created
ExecDml == \E q \in DmlStmts : HasTable(snapshot, q.table) /\ Becomes(execute(Self, q))

\* query(sql) of a SELECT
Query == \E q \in SelectStmts : Becomes(execute(Self, q))

\* transaction(fn), fn working on a table the caller has created
Transaction ==
  \E body \in TxnBodies, throws \in BOOLEAN :
     HasTable(snapshot, "t") /\ Becomes(transaction(Self, body, throws))

\* import(json) of the text this facade exported
Import == Becomes(import(Self, export(Self)))

Next == ExecDdl \/ ExecDml \/ Query \/ Transaction \/ Import

Spec == Init /\ [][Next]_vars

(***************************************************************************)
(* One exec() of an INSERT, call by call. insertRow fires the BEFORE       *)
(* INSERT triggers, pushes the row and fires the AFTER INSERT triggers;    *)
(* each statement of a trigger body goes through executeWithCtes into a    *)
(* nested insertRow on the same call stack. callStack holds the insertRow  *)
(* calls that have not returned, innermost last; exec() has returned or    *)
(* thrown when it is empty. The tables are the ones ensureTable creates    *)
(* (no primary key), the statements insert one row, autoSave is off.       *)
(* The code puts no bound on the nesting. callStack keeps the innermost    *)
(* MaxCallDepth calls: a call below them is resumed only after all of them *)
(* have returned, so while callStack is not empty the steps taken are the  *)
(* steps of the code. Each call carries its depth modulo MaxCallDepth + 1. *)
(***************************************************************************)
MaxCallDepth == 3       \* innermost insertRow calls of one exec() kept on callStack

\* the trigger fires for the insertRow call at this position
triggerMatches(trigger, frame) ==
  trigger.table = frame.table /\ trigger.timing = frame.timing /\ trigger.event = "INSERT"

\* for (const trigger of triggers) with its three continue tests: the next trigger from i on that fires
RECURSIVE nextTrigger(_, _, _)
nextTrigger(triggers, i, frame) ==
  IF i > Len(triggers) \/ triggerMatches(triggers[i], frame) THEN i ELSE nextTrigger(triggers, i + 1, frame)

\* an insertRow call at this.fireTriggers("BEFORE", "INSERT", tableName, row)
Frame(table, row, triggers, level) ==
  [table |-> table, row |-> row, timing |-> "BEFORE", stmt |-> 1, level |-> level,
   trigger |-> nextTrigger(triggers, 1, [table |-> table, timing |-> "BEFORE"])]

\* case "insert" of executeWithCtes and insertRow down to its triggers: the row to push, or the error thrown
insertChecked(db, table, row0) ==
  [db |-> db, row |-> WithDefaults(table.def, row0),
   err |-> FirstError(<<InsertColumnError(table.def, row0, WithDefaults(table.def, row0)),
                        validateChecks(table, WithDefaults(table.def, row0)),
                        IF findConflictingRows(table, WithDefaults(table.def, row0)) = {} THEN ""
                        ELSE DuplicateError(table, WithDefaults(table.def, row0))>>)]

insertEntered(db, q) ==
  insertChecked(db, db.snapshot.tables[q.table],
                RowOf(resolveInsertColumns(db.snapshot.tables[q.table], q.columns), q.values[1]))

insertEnter(db, q) ==
  insertEntered(ensureTable([db EXCEPT !.lastInsertId = Null], q.table, inferColumnDefsFromInsert(q.columns)), q)

\* the caller's position once a statement of a trigger body has returned
resumed(frame, triggers) ==
  IF frame.stmt < Len(triggers[frame.trigger].statement) THEN [frame EXCEPT !.stmt = @ + 1]
  ELSE [frame EXCEPT !.stmt = 1, !.trigger = nextTrigger(triggers, frame.trigger + 1, frame)]

\* the stack once its innermost call has returned
returnedTo(stack, triggers) ==
  IF Len(stack) = 1 THEN <<>>
  ELSE [SubSeq(stack, 1, Len(stack) - 1) EXCEPT ![Len(stack) - 1] = resumed(@, triggers)]

\* the fields of the facade while a call is running
TriggerBecomes(db) ==
  /\ snapshot' = db.snapshot
  /\ dirty' = db.dirty
  /\ lastInsertId' = db.lastInsertId
  /\ lastChanges' = db.lastChanges
  /\ totalChangesValue' = db.totalChangesValue
  /\ UNCHANGED <<autoSave, stored, inputSql, inputParams, parserResult, properties, lastSave, storeCall>>
  /\ UNCHANGED managerVars

\* the innermost MaxCallDepth calls of a stack
Innermost(stack) == IF Len(stack) > MaxCallDepth THEN SubSeq(stack, Len(stack) - MaxCallDepth + 1, Len(stack)) ELSE stack

\* the depth, modulo MaxCallDepth + 1, of a call made under the calls of stack
LevelUnder(stack) == IF stack = <<>> THEN 0 ELSE (stack[Len(stack)].level + 1) % (MaxCallDepth + 1)

\* insertRow is entered with statement q under the calls of stack; an Error unwinds every call
Entered(c, q, stack) ==
  /\ TriggerBecomes(c.db)
  /\ callStack' = IF c.err # "" THEN <<>>
                  ELSE Innermost(Append(stack, Frame(q.table, c.row, c.db.snapshot.triggers, LevelUnder(stack))))

\* CREATE TRIGGER again BEFORE INSERT ON log BEGIN INSERT INTO log (tid) VALUES (NEW.tid); END
AgainTrigger ==
  CreateTrigger("again", "log", "BEFORE", "INSERT", <<Insert("log", <<"tid">>, << <<TriggerRef("NEW", "tid")>> >>, "")>>)
\* CREATE TRIGGER twice BEFORE INSERT ON t BEGIN INSERT INTO seen (tid) VALUES (NEW.id); INSERT INTO seen (tid) VALUES (NEW.id); END
TwiceTrigger ==
  CreateTrigger("twice", "t", "BEFORE", "INSERT",
                <<Insert("seen", <<"tid">>, << <<TriggerRef("NEW", "id")>> >>, ""),
                  Insert("seen", <<"tid">>, << <<TriggerRef("NEW", "id")>> >>, "")>>)

CallTriggerStmts ==
  {AuditTrigger, AgainTrigger, TwiceTrigger, DropTrigger("audit"), DropTrigger("again"), DropTrigger("twice")}

CallInsertStmts ==
  {Insert("t", <<"id">>, << <<Num(v)>> >>, "") : v \in 1..MaxNum}
  \cup {Insert("log", <<"tid">>, << <<Num(v)>> >>, "") : v \in 1..MaxNum}

TriggerInit == EngineIdle /\ ManagerIdle

\* exec(sql) of CREATE TRIGGER / DROP TRIGGER, between calls
TriggerDdl ==
  /\ callStack = <<>>
  /\ \E q \in CallTriggerStmts : TriggerBecomes(execute(Self, q).db)
  /\ UNCHANGED callStack

\* exec(sql) of an INSERT is called
ExecInsert ==
  /\ callStack = <<>>
  /\ \A n \in DOMAIN snapshot.tables : Len(snapshot.tables[n].rows) < MaxRows
  /\ totalChangesValue < MaxTotalChanges
  /\ \E q \in CallInsertStmts : Entered(insertEnter(Self, q), q, <<>>)

\* fireTriggers reaches a statement of a trigger body: executeWithCtes, into a nested insertRow
FireBody ==
  /\ callStack # <<>>
  /\ callStack[Len(callStack)].trigger <= Len(snapshot.triggers)
  /\ Entered(insertEnter(Self, replaceTriggerRefs(
                                 snapshot.triggers[callStack[Len(callStack)].trigger].statement[callStack[Len(callStack)].stmt],
                                 <<callStack[Len(callStack)].row>>, <<>>)),
             snapshot.triggers[callStack[Len(callStack)].trigger].statement[callStack[Len(callStack)].stmt],
             callStack)

\* the BEFORE INSERT triggers are done: table.rows.push(row), then the AFTER INSERT triggers
PushRow ==
  /\ callStack # <<>>
  /\ callStack[Len(callStack)].timing = "BEFORE"
  /\ callStack[Len(callStack)].trigger > Len(snapshot.triggers)
  /\ TriggerBecomes(SetRows(Self, callStack[Len(callStack)].table,
                            Append(snapshot.tables[callStack[Len(callStack)].table].rows, callStack[Len(callStack)].row)))
  /\ callStack' = [callStack EXCEPT ![Len(callStack)] =
                     [@ EXCEPT !.timing = "AFTER", !.stmt = 1,
                               !.trigger = nextTrigger(snapshot.triggers, 1,
                                                       [table |-> callStack[Len(callStack)].table, timing |-> "AFTER"])]]

\* the AFTER INSERT triggers are done: this.dirty = true; return row, and the counters of the statement
ReturnRow ==
  /\ callStack # <<>>
  /\ callStack[Len(callStack)].timing = "AFTER"
  /\ callStack[Len(callStack)].trigger > Len(snapshot.triggers)
  /\ TriggerBecomes(finishDml(Ok([Self EXCEPT !.dirty = TRUE], 1, <<callStack[Len(callStack)].row>>)).db)
  /\ callStack' = returnedTo(callStack, snapshot.triggers)

TriggerNext == TriggerDdl \/ ExecInsert \/ FireBody \/ PushRow \/ ReturnRow

\* every step of a running call is taken: the engine is synchronous
TriggerSpec == TriggerInit /\ [][TriggerNext]_vars /\ WF_vars(TriggerNext)

(***************************************************************************)
(* sql.ts: tokenize. An SQL text is the sequence of its characters, each a *)
(* string of length one; s[i] of the source is At(s, i). A token keeps its *)
(* type, its value (the characters) and its index in the text; its line    *)
(* and column, which only error messages use, are left out.                *)
(***************************************************************************)
At(s, i) == IF i >= 0 /\ i < Len(s) THEN s[i + 1] ELSE ""
\* s.slice(from, to)
Slice(s, from, to) == IF to > Len(s) THEN SubSeq(s, from + 1, Len(s)) ELSE SubSeq(s, from + 1, to)

Digits == {"0", "1", "2", "3", "4", "5", "6", "7", "8", "9"}
LowerCase ==
  <<"a", "b", "c", "d", "e", "f", "g", "h", "i", "j", "k", "l", "m",
    "n", "o", "p", "q", "r", "s", "t", "u", "v", "w", "x", "y", "z">>
UpperCase ==
  <<"A", "B", "C", "D", "E", "F", "G", "H", "I", "J", "K", "L", "M",
    "N", "O", "P", "Q", "R", "S", "T", "U", "V", "W", "X", "Y", "Z">>
HexDigits == Digits \cup {"a", "b", "c", "d", "e", "f", "A", "B", "C", "D", "E", "F"}
\* /\s/ and the line terminators of a regular expression, on the characters explored
Whitespace == {" ", "\t", "\n", "\r", "\f"}
LineTerminators == {"\n", "\r"}
\* the characters that a string of the model cannot hold, by name
Backquote == "BACKQUOTE"
Nul == "NUL"

isIdentStart(ch) == ch \in Range(LowerCase) \cup Range(UpperCase) \cup {"_"}
isIdentChar(ch) == isIdentStart(ch) \/ ch \in Digits

\* String.prototype.toUpperCase, character by character
UpperOf(ch) ==
  IF ch \in Range(LowerCase) THEN UpperCase[CHOOSE n \in 1..Len(LowerCase) : LowerCase[n] = ch] ELSE ch
toUpperCase(text) == [n \in 1..Len(text) |-> UpperOf(text[n])]

Token(type, value, index) == [type |-> type, value |-> value, index |-> index]
Tokens(tokens) == [err |-> "", tokens |-> tokens]
TokenError(err) == [err |-> err, tokens |-> <<>>]

\* the first index in from..to at which P holds, or -1
FirstFrom(P(_), from, to) ==
  IF \E j \in from..to : P(j) THEN CHOOSE j \in from..to : P(j) /\ \A k \in from..(j - 1) : ~P(k) ELSE -1

\* sql.replace(/\/\*[\s\S]*?\*\//g, ""): a match starts at the first "/*" that
\* some "*/" follows, and ends with the first "*/" after it
blockEnd(s, j) ==
  LET Closes(k) == At(s, k) = "*" /\ At(s, k + 1) = "/"
  IN FirstFrom(Closes, j, Len(s) - 2)
blockStart(s, i) ==
  LET Opens(j) == At(s, j) = "/" /\ At(s, j + 1) = "*" /\ blockEnd(s, j + 2) # -1
  IN FirstFrom(Opens, i, Len(s) - 4)

RECURSIVE stripBlockComments(_, _)
stripBlockComments(s, i) ==
  IF blockStart(s, i) = -1 THEN Slice(s, i, Len(s))
  ELSE Slice(s, i, blockStart(s, i)) \o stripBlockComments(s, blockEnd(s, blockStart(s, i) + 2) + 2)

\* .replace(/--.*$/gm, ""): a match starts at the first "--" and ends before
\* the line terminator, or at the end of the text
lineEnd(s, j) ==
  LET Ends(k) == k = Len(s) \/ At(s, k) \in LineTerminators
  IN FirstFrom(Ends, j, Len(s))
lineStart(s, i) ==
  LET Opens(j) == At(s, j) = "-" /\ At(s, j + 1) = "-"
  IN FirstFrom(Opens, i, Len(s) - 2)

RECURSIVE stripLineComments(_, _)
stripLineComments(s, i) ==
  IF lineStart(s, i) = -1 THEN Slice(s, i, Len(s))
  ELSE Slice(s, i, lineStart(s, i)) \o stripLineComments(s, lineEnd(s, lineStart(s, i) + 2))

\* the character a backslash escape stands for; nothing at the end of the text
Unescaped(next) ==
  CASE next = "" -> <<>>
    [] next = "n" -> <<"\n">>
    [] next = "t" -> <<"\t">>
    [] next = "r" -> <<"\r">>
    [] next = "0" -> <<Nul>>
    [] OTHER -> <<next>>

\* readEscaped(delim), from the character after the opening quote: the loop
\* ends at the closing quote or at the end of the text
RECURSIVE readEscaped(_, _, _, _)
readEscaped(s, i, delim, out) ==
  IF i >= Len(s) THEN [out |-> out, i |-> i]
  ELSE IF At(s, i) = delim
    THEN IF At(s, i + 1) = delim THEN readEscaped(s, i + 2, delim, Append(out, delim))
         ELSE [out |-> out, i |-> i + 1]
  ELSE IF At(s, i) = "\\" THEN readEscaped(s, i + 2, delim, out \o Unescaped(At(s, i + 1)))
  ELSE readEscaped(s, i + 1, delim, Append(out, At(s, i)))

\* the loop of a backquoted identifier
RECURSIVE readQuotedIdent(_, _, _)
readQuotedIdent(s, i, out) ==
  IF i >= Len(s) THEN [out |-> out, i |-> i]
  ELSE IF At(s, i) = Backquote THEN [out |-> out, i |-> i + 1]
  ELSE readQuotedIdent(s, i + 1, Append(out, At(s, i)))

\* the end of the hexadecimal digits from j on
RECURSIVE hexEnd(_, _)
hexEnd(s, j) == IF At(s, j) \in HexDigits THEN hexEnd(s, j + 1) ELSE j

\* the end of the digits from j on
RECURSIVE digitsEnd(_, _)
digitsEnd(s, j) == IF At(s, j) \in Digits THEN digitsEnd(s, j + 1) ELSE j

\* the exponent, from the character after e: an optional sign, then digits
scanExponent(s, j) ==
  IF digitsEnd(s, IF At(s, j) \in {"+", "-"} THEN j + 1 ELSE j) = (IF At(s, j) \in {"+", "-"} THEN j + 1 ELSE j)
    THEN [err |-> "Invalid number literal: missing exponent digits.", j |-> j]
  ELSE [err |-> "", j |-> digitsEnd(s, IF At(s, j) \in {"+", "-"} THEN j + 1 ELSE j)]

\* the loop over a decimal literal; it is entered on a digit, so digitCount
\* is never 0, and it leaves after an exponent, so expSeen is never true in it
RECURSIVE scanNumber(_, _, _)
scanNumber(s, j, dotSeen) ==
  IF At(s, j) \in Digits THEN scanNumber(s, j + 1, dotSeen)
  ELSE IF At(s, j) = "."
    THEN IF dotSeen THEN [err |-> "Invalid number literal: unexpected dot.", j |-> j]
         ELSE scanNumber(s, j + 1, TRUE)
  ELSE IF At(s, j) \in {"e", "E"} THEN scanExponent(s, j + 1)
  ELSE [err |-> "", j |-> j]

\* the end of the identifier from j on
RECURSIVE identEnd(_, _)
identEnd(s, j) == IF isIdentChar(At(s, j)) THEN identEnd(s, j + 1) ELSE j

\* a token read up to index i, or the error thrown
Read(type, value, i) == [err |-> "", type |-> type, value |-> value, i |-> i]
ReadError(err) == [err |-> err, type |-> "", value |-> <<>>, i |-> 0]

\* a quoted literal or identifier read as r
readQuoted(type, r) == Read(type, r.out, r.i)

\* a hexadecimal literal whose digits end at j
readHex(s, i, digits, j) ==
  IF j = digits THEN ReadError("Invalid hex number literal.") ELSE Read("number", Slice(s, i, j), j)

\* a decimal literal scanned as r
readDecimal(s, i, r) ==
  IF r.err # "" THEN ReadError(r.err)
  ELSE IF At(s, r.j - 1) = "." THEN ReadError("Invalid number literal: trailing dot.")
  ELSE Read("number", Slice(s, i, r.j), r.j)

\* a number literal whose digits start at j
readNumber(s, i, j) ==
  IF At(s, j) = "0" /\ At(s, j + 1) \in {"x", "X"} THEN readHex(s, i, j + 2, hexEnd(s, j + 2))
  ELSE readDecimal(s, i, scanNumber(s, j, FALSE))

\* one turn of the loop of tokenize, at the character of index i, no whitespace
readToken(s, i) ==
  IF At(s, i) \in {"'", "\""} THEN readQuoted("string", readEscaped(s, i + 1, At(s, i), <<>>))
  ELSE IF At(s, i) = Backquote THEN readQuoted("ident", readQuotedIdent(s, i + 1, <<>>))
  ELSE IF At(s, i) = "?" THEN Read("placeholder", <<"?">>, i + 1)
  ELSE IF Slice(s, i, i + 2) \in {<<"<", "=">>, <<">", "=">>, <<"!", "=">>, <<"<", ">">>}
    THEN Read("op", Slice(s, i, i + 2), i + 2)
  ELSE IF At(s, i) \in {"=", "<", ">"} THEN Read("op", <<At(s, i)>>, i + 1)
  ELSE IF At(s, i) \in {"(", ")", ",", "*", ";", "."} THEN Read("symbol", <<At(s, i)>>, i + 1)
  ELSE IF (At(s, i) = "-" /\ At(s, i + 1) \in Digits) \/ At(s, i) \in Digits
    THEN readNumber(s, i, IF At(s, i) = "-" THEN i + 1 ELSE i)
  ELSE IF isIdentStart(At(s, i)) THEN Read("ident", Slice(s, i, identEnd(s, i + 1)), identEnd(s, i + 1))
  ELSE ReadError("Unexpected SQL character")

\* the index of the first character from i on that is no whitespace, or the length
skipWhitespace(s, i) ==
  LET Stops(k) == k = Len(s) \/ At(s, k) \notin Whitespace
  IN IF i >= Len(s) THEN i ELSE FirstFrom(Stops, i, Len(s))

\* the loop of tokenize over the text without comments, from index i: the
\* whitespace is passed over, then one token is read and pushed
RECURSIVE tokenizeFrom(_, _, _)
tokenizeFrom(s, i, tokens) ==
  IF skipWhitespace(s, i) >= Len(s) THEN Tokens(Append(tokens, Token("eof", <<>>, skipWhitespace(s, i))))
  ELSE IF readToken(s, skipWhitespace(s, i)).err # "" THEN TokenError(readToken(s, skipWhitespace(s, i)).err)
  ELSE tokenizeFrom(s, readToken(s, skipWhitespace(s, i)).i,
                    Append(tokens, Token(readToken(s, skipWhitespace(s, i)).type,
                                         readToken(s, skipWhitespace(s, i)).value, skipWhitespace(s, i))))

tokenize(text) == tokenizeFrom(stripLineComments(stripBlockComments(text, 0), 0), 0, <<>>)

(***************************************************************************)
(* sql.ts: the Cursor and parseSql, for INSERT ... VALUES, UPDATE, DELETE  *)
(* and CREATE TRIGGER with WHERE clauses built from comparisons, IN lists, *)
(* BETWEEN, AND, OR, NOT and parentheses. A construct outside these (WITH, *)
(* SELECT, CREATE TABLE, ALTER, DROP, LIKE, IS NULL, EXISTS, LIMIT,        *)
(* RETURNING) ends the parse with NotModelled. A parse function takes the  *)
(* cursor and returns the cursor it leaves, with the error thrown if any,  *)
(* and the value parsed.                                                   *)
(***************************************************************************)
Kw ==
  [Insert |-> <<"I", "N", "S", "E", "R", "T">>, Or |-> <<"O", "R">>, Replace |-> <<"R", "E", "P", "L", "A", "C", "E">>,
   Ignore |-> <<"I", "G", "N", "O", "R", "E">>, Into |-> <<"I", "N", "T", "O">>,
   Default |-> <<"D", "E", "F", "A", "U", "L", "T">>, Values |-> <<"V", "A", "L", "U", "E", "S">>,
   Select |-> <<"S", "E", "L", "E", "C", "T">>, Update |-> <<"U", "P", "D", "A", "T", "E">>,
   Set |-> <<"S", "E", "T">>, Delete |-> <<"D", "E", "L", "E", "T", "E">>, From |-> <<"F", "R", "O", "M">>,
   Where |-> <<"W", "H", "E", "R", "E">>, Create |-> <<"C", "R", "E", "A", "T", "E">>,
   Trigger |-> <<"T", "R", "I", "G", "G", "E", "R">>, Before |-> <<"B", "E", "F", "O", "R", "E">>,
   After |-> <<"A", "F", "T", "E", "R">>, On |-> <<"O", "N">>, Begin |-> <<"B", "E", "G", "I", "N">>,
   End |-> <<"E", "N", "D">>, And |-> <<"A", "N", "D">>, Not |-> <<"N", "O", "T">>, In |-> <<"I", "N">>,
   Between |-> <<"B", "E", "T", "W", "E", "E", "N">>, Like |-> <<"L", "I", "K", "E">>, Is |-> <<"I", "S">>,
   Exists |-> <<"E", "X", "I", "S", "T", "S">>, Limit |-> <<"L", "I", "M", "I", "T">>,
   Returning |-> <<"R", "E", "T", "U", "R", "N", "I", "N", "G">>, With |-> <<"W", "I", "T", "H">>,
   True |-> <<"T", "R", "U", "E">>, False |-> <<"F", "A", "L", "S", "E">>, Null |-> <<"N", "U", "L", "L">>]

NotModelled == "NOT_MODELLED"

\* the values a literal token stands for
Text(chars) == [k |-> "string", v |-> chars]
Bool(b) == [k |-> "boolean", v |-> b]
DigitChars == <<"0", "1", "2", "3", "4", "5", "6", "7", "8", "9">>
DigitValue(ch) == (CHOOSE n \in 1..10 : DigitChars[n] = ch) - 1
RECURSIVE DecimalValue(_)
DecimalValue(text) ==
  IF text = <<>> THEN 0 ELSE 10 * DecimalValue(SubSeq(text, 1, Len(text) - 1)) + DigitValue(text[Len(text)])
\* Number(t.value): an integer literal is its value; a literal with a fraction,
\* an exponent or hexadecimal digits is kept as its text
NumberOf(text) ==
  IF text # <<>> /\ \A n \in 1..Len(text) : text[n] \in Digits THEN Num(DecimalValue(text))
  ELSE IF Len(text) > 1 /\ text[1] = "-" /\ \A n \in 2..Len(text) : text[n] \in Digits
    THEN Num(0 - DecimalValue(Tail(text)))
  ELSE [k |-> "real", v |-> text]
\* Number("-0x..") is NaN
IsFinite(text) == ~(Len(text) > 2 /\ text[1] = "-" /\ text[2] = "0" /\ text[3] \in {"x", "X"})

Cursor(tokens, params) == [tokens |-> tokens, index |-> 0, params |-> params, err |-> ""]
peek(c) == c.tokens[c.index + 1]
\* the cursor after next(), which returns peek(c)
next(c) == [c EXCEPT !.index = @ + 1]
throw(c, err) == [c EXCEPT !.err = err]
Parsed(c, v) == [c |-> c, v |-> v]

NoValue == <<"undefined">>
expect(c, type, value) ==
  IF peek(c).type # type THEN throw(next(c), "Expected type")
  ELSE IF value # NoValue /\ toUpperCase(peek(c).value) # toUpperCase(value) THEN throw(next(c), "Expected value")
  ELSE next(c)

matchIdent(c, value) == peek(c).type = "ident" /\ toUpperCase(peek(c).value) = toUpperCase(value)
matchSymbol(c, value) == peek(c).type = "symbol" /\ peek(c).value = <<value>>
matchOp(c, value) == peek(c).type = "op" /\ peek(c).value = <<value>>

parseIdent(c) == Parsed(expect(c, "ident", NoValue), peek(c).value)

\* the column of a reference whose first name has been parsed as r
columnRefAfter(r) ==
  IF r.c.err = "" /\ matchSymbol(r.c, ".")
    THEN Parsed(parseIdent(next(r.c)).c, [table |-> r.v, column |-> parseIdent(next(r.c)).v])
  ELSE Parsed(r.c, [table |-> <<>>, column |-> r.v])
parseColumnRef(c) == columnRefAfter(parseIdent(c))

\* Cursor.parseValue: a placeholder takes the first of the params that remain
cursorParseValue(c) ==
  LET t == peek(c)
  IN IF t.type = "placeholder"
       THEN IF c.params = <<>> THEN Parsed(throw(next(c), "Missing SQL params for placeholder."), Null)
            ELSE Parsed([next(c) EXCEPT !.params = Tail(@)], Head(c.params))
     ELSE IF t.type = "string" THEN Parsed(next(c), Text(t.value))
     ELSE IF t.type = "number"
       THEN IF IsFinite(t.value) THEN Parsed(next(c), NumberOf(t.value))
            ELSE Parsed(throw(next(c), "Invalid number literal"), Null)
     ELSE IF t.type = "ident" /\ toUpperCase(t.value) = Kw.True THEN Parsed(next(c), Bool(TRUE))
     ELSE IF t.type = "ident" /\ toUpperCase(t.value) = Kw.False THEN Parsed(next(c), Bool(FALSE))
     ELSE IF t.type = "ident" /\ toUpperCase(t.value) = Kw.Null THEN Parsed(next(c), Null)
     ELSE Parsed(throw(next(c), "Expected value"), Null)

assertEof(c) ==
  IF c.err # "" THEN c
  ELSE IF peek(IF matchSymbol(c, ";") THEN next(c) ELSE c).type # "eof"
    THEN throw(IF matchSymbol(c, ";") THEN next(c) ELSE c, "Unexpected token after SQL statement.")
  ELSE IF matchSymbol(c, ";") THEN next(c) ELSE c

\* a comma-separated list of values up to the closing parenthesis, after r
RECURSIVE valueListAfter(_, _)
valueListAfter(list, r) ==
  IF r.c.err # "" THEN Parsed(r.c, list)
  ELSE IF matchSymbol(r.c, ",") THEN valueListAfter(Append(list, r.v), cursorParseValue(next(r.c)))
  ELSE Parsed(r.c, Append(list, r.v))
parseValueList(c) ==
  IF matchSymbol(c, ")") THEN Parsed(c, <<>>) ELSE valueListAfter(<<>>, cursorParseValue(c))

WhereClause(column, op, value) == [type |-> "clause", clause |-> [column |-> column, op |-> op, value |-> value]]
Negated(kw, node) == IF kw = Kw.Not THEN [type |-> "not", node |-> node] ELSE node

\* column op value
opClause(column, opToken, r) ==
  Parsed(r.c, WhereClause(column, IF opToken.value = <<"<", ">">> THEN <<"!", "=">> ELSE opToken.value, r.v))

\* column [NOT] IN (list), the list parsed as r
inClause(column, kw, r) ==
  Parsed(expect(r.c, "symbol", <<")">>), Negated(kw, WhereClause(column, Kw.In, r.v)))
inList(column, kw, c) ==
  IF c.err # "" THEN Parsed(c, NoNode)
  ELSE IF matchIdent(c, Kw.Select) THEN Parsed(throw(c, NotModelled), NoNode)
  ELSE inClause(column, kw, parseValueList(c))

\* column [NOT] BETWEEN first AND second
betweenSecond(column, kw, first, r) ==
  Parsed(r.c, Negated(kw, WhereClause(column, Kw.Between, <<first, r.v>>)))
betweenAnd(column, kw, first, c) ==
  IF c.err # "" THEN Parsed(c, NoNode) ELSE betweenSecond(column, kw, first, cursorParseValue(c))
betweenFirst(column, kw, r) ==
  IF r.c.err # "" THEN Parsed(r.c, NoNode) ELSE betweenAnd(column, kw, r.v, expect(r.c, "ident", Kw.And))

\* the clause of operator keyword op, the cursor after the keyword
keywordOp(column, kw, op, c) ==
  IF op = Kw.In THEN inList(column, kw, expect(c, "symbol", <<"(">>))
  ELSE IF op = Kw.Between THEN betweenFirst(column, kw, cursorParseValue(c))
  ELSE IF op = Kw.Like THEN Parsed(throw(c, NotModelled), NoNode)
  ELSE Parsed(throw(c, "Unsupported WHERE operator"), NoNode)

\* the clause whose column is followed by an identifier
keywordClause(column, c) ==
  IF toUpperCase(peek(c).value) = Kw.Not
    THEN IF expect(next(c), "ident", NoValue).err # "" THEN Parsed(expect(next(c), "ident", NoValue), NoNode)
         ELSE IF toUpperCase(peek(next(c)).value) \notin {Kw.In, Kw.Like, Kw.Between}
           THEN Parsed(throw(next(next(c)), "Unsupported WHERE operator: NOT"), NoNode)
         ELSE keywordOp(column, Kw.Not, toUpperCase(peek(next(c)).value), next(next(c)))
  ELSE IF toUpperCase(peek(c).value) = Kw.Is THEN Parsed(throw(c, NotModelled), NoNode)
  ELSE keywordOp(column, toUpperCase(peek(c).value), toUpperCase(peek(c).value), next(c))

\* the clause after its column reference r
clauseAfterColumn(r) ==
  IF r.c.err # "" THEN Parsed(r.c, NoNode)
  ELSE IF peek(r.c).type = "op" THEN opClause(r.v, peek(r.c), cursorParseValue(next(r.c)))
  ELSE IF peek(r.c).type = "ident" THEN keywordClause(r.v, r.c)
  ELSE Parsed(throw(r.c, "Invalid WHERE clause."), NoNode)

parseClauseNode(c) ==
  IF matchIdent(c, Kw.Exists) THEN Parsed(throw(c, NotModelled), NoNode)
  ELSE clauseAfterColumn(parseColumnRef(c))

RECURSIVE parsePrimary(_)
RECURSIVE parseAnd(_)
RECURSIVE parseOr(_)
notOf(r) == Parsed(r.c, [type |-> "not", node |-> r.v])
closed(r) == IF r.c.err # "" THEN r ELSE Parsed(expect(r.c, "symbol", <<")">>), r.v)
parsePrimary(c) ==
  IF matchIdent(c, Kw.Not) THEN notOf(parsePrimary(next(c)))
  ELSE IF matchSymbol(c, "(") THEN closed(parseOr(next(c)))
  ELSE parseClauseNode(c)

joinedBy(type, left, r) == Parsed(r.c, [type |-> type, left |-> left, right |-> r.v])
RECURSIVE andAfter(_)
andAfter(r) ==
  IF r.c.err = "" /\ matchIdent(r.c, Kw.And) THEN andAfter(joinedBy("and", r.v, parsePrimary(next(r.c)))) ELSE r
parseAnd(c) == andAfter(parsePrimary(c))

RECURSIVE orAfter(_)
orAfter(r) ==
  IF r.c.err = "" /\ matchIdent(r.c, Kw.Or) THEN orAfter(joinedBy("or", r.v, parseAnd(next(r.c)))) ELSE r
parseOr(c) == orAfter(parseAnd(c))

parseCondition(c) == parseOr(c)

parseWhere(c) ==
  IF c.err # "" \/ ~matchIdent(c, Kw.Where) THEN Parsed(c, NoNode) ELSE parseCondition(next(c))

\* parseLimitOffset and parseReturning, for a statement with neither clause
parseTail(c) ==
  IF c.err = "" /\ (matchIdent(c, Kw.Limit) \/ matchIdent(c, Kw.Returning)) THEN throw(c, NotModelled) ELSE c

\* the statement q, complete at r unless an error was thrown
finished(q, r) ==
  [err |-> assertEof(parseTail(r.c)).err, query |-> IF assertEof(parseTail(r.c)).err = "" THEN q ELSE <<>>]

\* INSERT [OR action]: the cursor after INSERT
insertOrAction(r) ==
  IF r.c.err # "" THEN Parsed(r.c, <<>>)
  ELSE IF toUpperCase(r.v) \notin {Kw.Replace, Kw.Ignore} THEN Parsed(throw(r.c, "Unsupported INSERT OR action"), <<>>)
  ELSE Parsed(r.c, toUpperCase(r.v))
insertOr(c) == IF matchIdent(c, Kw.Or) THEN insertOrAction(parseIdent(next(c))) ELSE Parsed(c, <<>>)

\* a comma-separated list of identifiers, after r
RECURSIVE identListAfter(_, _)
identListAfter(list, r) ==
  IF r.c.err # "" THEN Parsed(r.c, list)
  ELSE IF matchSymbol(r.c, ",") THEN identListAfter(Append(list, r.v), parseIdent(next(r.c)))
  ELSE Parsed(r.c, Append(list, r.v))

\* the optional column list; hasColumns tells a list from its absence
columnsClosed(q, r) == Parsed(closed(r).c, [q EXCEPT !.hasColumns = TRUE, !.columns = r.v])
insertColumns(q, c) ==
  IF c.err # "" \/ ~matchSymbol(c, "(") THEN Parsed(c, q)
  ELSE columnsClosed(q, identListAfter(<<>>, parseIdent(next(c))))

\* the rows of VALUES: the row list r of one row has been parsed up to its ")"
RECURSIVE parseRows(_, _)
rowClosed(q, c, rowValues) ==
  IF c.err # "" THEN Parsed(c, q)
  ELSE IF q.hasColumns /\ Len(q.columns) # Len(rowValues)
    THEN Parsed(throw(c, "INSERT column/value length mismatch."), q)
  ELSE IF matchSymbol(c, ",") THEN parseRows([q EXCEPT !.values = Append(@, rowValues)], next(c))
  ELSE Parsed(c, [q EXCEPT !.values = Append(@, rowValues)])
rowParsed(q, r) == IF r.c.err # "" THEN Parsed(r.c, q) ELSE rowClosed(q, expect(r.c, "symbol", <<")">>), r.v)
rowOpened(q, c) == IF c.err # "" THEN Parsed(c, q) ELSE rowParsed(q, parseValueList(c))
parseRows(q, c) == rowOpened(q, expect(c, "symbol", <<"(">>))

defaultValuesOf(q, c) == Parsed(c, [q EXCEPT !.defaultValues = TRUE])
insertSource(r) ==
  IF r.c.err # "" THEN r
  ELSE IF matchIdent(r.c, Kw.Default) THEN defaultValuesOf(r.v, expect(next(r.c), "ident", Kw.Values))
  ELSE IF matchIdent(r.c, Kw.Values) THEN parseRows(r.v, next(r.c))
  ELSE IF matchIdent(r.c, Kw.Select) THEN Parsed(throw(r.c, NotModelled), r.v)
  ELSE Parsed(throw(r.c, "INSERT expects VALUES, DEFAULT VALUES, or SELECT."), r.v)

insertTable(or, r) ==
  insertColumns([type |-> "insert", table |-> r.v, hasColumns |-> FALSE, columns |-> <<>>, values |-> <<>>,
                 defaultValues |-> FALSE, or |-> or], r.c)
insertIntoTable(or, c) == IF c.err # "" THEN Parsed(c, <<>>) ELSE insertSource(insertTable(or, parseIdent(c)))
insertAfterOr(r) == IF r.c.err # "" THEN r ELSE insertIntoTable(r.v, expect(r.c, "ident", Kw.Into))
parseInsert(c) == insertAfterOr(insertOr(c))

\* UPDATE table SET col = value, ...: the assignments, the cursor at a column name
RECURSIVE parseSet(_, _)
assigned(q, col, r) ==
  IF r.c.err # "" THEN Parsed(r.c, q)
  ELSE IF matchSymbol(r.c, ",") THEN parseSet([q EXCEPT !.set = Put(@, col, r.v)], next(r.c))
  ELSE Parsed(r.c, [q EXCEPT !.set = Put(@, col, r.v)])
assignedTo(q, col, c) == IF c.err # "" THEN Parsed(c, q) ELSE assigned(q, col, cursorParseValue(c))
setColumn(q, r) == IF r.c.err # "" THEN Parsed(r.c, q) ELSE assignedTo(q, r.v, expect(r.c, "op", <<"=">>))
parseSet(q, c) == setColumn(q, parseIdent(c))

\* the WHERE clause of the statement r
whereOf(q, r) == Parsed(r.c, [q EXCEPT !.where = r.v])
withWhere(r) == IF r.c.err # "" THEN r ELSE whereOf(r.v, parseWhere(r.c))

updateSet(table, c) ==
  IF c.err # "" THEN Parsed(c, <<>>)
  ELSE withWhere(parseSet([type |-> "update", table |-> table, set |-> EmptyRow, where |-> NoNode], c))
updateTable(r) == IF r.c.err # "" THEN r ELSE updateSet(r.v, expect(r.c, "ident", Kw.Set))
parseUpdate(c) == updateTable(parseIdent(c))

deleteTable(r) == withWhere(Parsed(r.c, [type |-> "delete", table |-> r.v, where |-> NoNode]))
deleteFromTable(c) == IF c.err # "" THEN Parsed(c, <<>>) ELSE deleteTable(parseIdent(c))
parseDelete(c) == deleteFromTable(expect(c, "ident", Kw.From))

\* String.prototype.trim
RECURSIVE trimStart(_)
trimStart(text) == IF text # <<>> /\ Head(text) \in Whitespace THEN trimStart(Tail(text)) ELSE text
RECURSIVE trimEnd(_)
trimEnd(text) ==
  IF text # <<>> /\ text[Len(text)] \in Whitespace THEN trimEnd(SubSeq(text, 1, Len(text) - 1)) ELSE text
trim(text) == trimEnd(trimStart(text))

\* the trigger body: the text from BEGIN to END, which the cursor passes
\* over token by token without parsing it
RECURSIVE bodyEnd(_)
bodyEnd(c) ==
  IF peek(c).type = "ident" /\ toUpperCase(peek(c).value) = Kw.End THEN Parsed(next(c), peek(c).index)
  ELSE IF peek(c).type = "eof" THEN Parsed(throw(next(c), "Unterminated trigger body."), 0)
  ELSE bodyEnd(next(c))

triggerStatement(text) ==
  IF trim(text) # <<>> /\ trim(text)[Len(trim(text))] = ";" THEN trim(SubSeq(trim(text), 1, Len(trim(text)) - 1))
  ELSE trim(text)

triggerBody(sql, t, start, r) ==
  Parsed(r.c, [type |-> "createTrigger",
               trigger |-> [t EXCEPT !.statement = triggerStatement(Slice(sql, start, r.v))]])
triggerBegin(sql, t, c) == IF c.err # "" THEN Parsed(c, <<>>) ELSE triggerBody(sql, t, peek(c).index, bodyEnd(c))
triggerTable(sql, t, r) ==
  IF r.c.err # "" THEN r ELSE triggerBegin(sql, [t EXCEPT !.table = r.v], expect(r.c, "ident", Kw.Begin))
triggerOn(sql, t, c) == IF c.err # "" THEN Parsed(c, <<>>) ELSE triggerTable(sql, t, parseIdent(c))
triggerEvent(sql, t, r) ==
  IF r.c.err # "" THEN r
  ELSE IF toUpperCase(r.v) \notin {Kw.Insert, Kw.Update, Kw.Delete}
    THEN Parsed(throw(r.c, "TRIGGER event must be INSERT, UPDATE, or DELETE."), <<>>)
  ELSE triggerOn(sql, [t EXCEPT !.event = toUpperCase(r.v)], expect(r.c, "ident", Kw.On))
triggerTiming(sql, t, r) ==
  IF r.c.err # "" THEN r
  ELSE IF toUpperCase(r.v) \notin {Kw.Before, Kw.After}
    THEN Parsed(throw(r.c, "TRIGGER timing must be BEFORE or AFTER."), <<>>)
  ELSE triggerEvent(sql, [t EXCEPT !.timing = toUpperCase(r.v)], parseIdent(r.c))
triggerName(sql, r) ==
  IF r.c.err # "" THEN r
  ELSE triggerTiming(sql, [name |-> r.v, table |-> <<>>, timing |-> <<>>, event |-> <<>>, statement |-> <<>>],
                     parseIdent(r.c))
parseCreateTrigger(sql, c) == triggerName(sql, parseIdent(c))

\* parseSql on the cursor: the statement, or the error thrown
parseStatement(sql, c) ==
  IF matchIdent(c, Kw.With) \/ matchIdent(c, Kw.Select) THEN Parsed(throw(c, NotModelled), <<>>)
  ELSE IF matchIdent(c, Kw.Create)
    THEN IF matchIdent(next(c), Kw.Trigger) THEN parseCreateTrigger(sql, next(next(c)))
         ELSE Parsed(throw(c, NotModelled), <<>>)
  ELSE IF matchIdent(c, Kw.Insert) THEN parseInsert(next(c))
  ELSE IF matchIdent(c, Kw.Update) THEN parseUpdate(next(c))
  ELSE IF matchIdent(c, Kw.Delete) THEN parseDelete(next(c))
  ELSE Parsed(throw(c, NotModelled), <<>>)

\* the statement r with the clauses after WHERE and the end of the text checked
finishedStatement(r) == finished(r.v, r)

parseTokens(sql, tokenized, params) ==
  IF tokenized.err # "" THEN [err |-> tokenized.err, query |-> <<>>]
  ELSE finishedStatement(parseStatement(sql, Cursor(tokenized.tokens, params)))

parseSql(sql, params) == parseTokens(sql, tokenize(sql), params)

(***************************************************************************)
(* The text a trigger body becomes when the trigger fires: sqlLiteral,     *)
(* replaceTriggerRefs and splitStatements on the characters of the body,   *)
(* and parseSql on each statement. A row is a map from column names (as    *)
(* texts) to values; no row is the empty map.                              *)
(***************************************************************************)
RECURSIVE DecimalText(_)
DecimalText(n) ==
  IF n < 10 THEN <<DigitChars[n + 1]>> ELSE DecimalText(n \div 10) \o <<DigitChars[(n % 10) + 1]>>
\* String(value) of an integer
NumberText(n) == IF n < 0 THEN <<"-">> \o DecimalText(0 - n) ELSE DecimalText(n)

\* value.replace(/'/g, "''")
QuotesDoubled(chars) == Concat([n \in 1..Len(chars) |-> IF chars[n] = "'" THEN <<"'", "'">> ELSE <<chars[n]>>])

\* sqlLiteral, as the text it returns
literalText(value) ==
  IF IsNullish(value) THEN Kw.Null
  ELSE IF value.k = "number" THEN NumberText(value.v)
  ELSE IF value.k = "boolean" THEN (IF value.v THEN <<"t", "r", "u", "e">> ELSE <<"f", "a", "l", "s", "e">>)
  ELSE <<"'">> \o QuotesDoubled(value.v) \o <<"'">>

ColumnOfRow(row, col) == IF col \in DOMAIN row THEN row[col] ELSE Undefined

\* the end of the column name that starts at index start
refEnd(statement, start) ==
  IF FirstFrom(LAMBDA j : ~(isIdentChar(At(statement, j))), start, Len(statement)) = -1 THEN Len(statement)
  ELSE FirstFrom(LAMBDA j : ~(isIdentChar(At(statement, j))), start, Len(statement))

refLiteral(statement, i, j, newRow, oldRow) ==
  literalText(ColumnOfRow(IF toUpperCase(Slice(statement, i, i + 4)) = <<"N", "E", "W", ".">> THEN newRow ELSE oldRow,
                          Slice(statement, i + 4, j)))

\* the loop of replaceTriggerRefs at index i; quote is "" outside quotes
RECURSIVE replaceRefsFrom(_, _, _, _, _, _)
replaceRefsFrom(statement, i, quote, out, newRow, oldRow) ==
  IF i >= Len(statement) THEN out
  ELSE IF quote # "" /\ At(statement, i) = quote /\ At(statement, i + 1) = quote
    THEN replaceRefsFrom(statement, i + 2, quote, out \o <<quote, quote>>, newRow, oldRow)
  ELSE IF quote # "" /\ At(statement, i) = quote
    THEN replaceRefsFrom(statement, i + 1, "", Append(out, quote), newRow, oldRow)
  ELSE IF quote # ""
    THEN replaceRefsFrom(statement, i + 1, quote, Append(out, At(statement, i)), newRow, oldRow)
  ELSE IF At(statement, i) \in {"'", "\""}
    THEN replaceRefsFrom(statement, i + 1, At(statement, i), Append(out, At(statement, i)), newRow, oldRow)
  ELSE IF toUpperCase(Slice(statement, i, i + 4)) \in {<<"N", "E", "W", ".">>, <<"O", "L", "D", ".">>}
    THEN replaceRefsFrom(statement, refEnd(statement, i + 4), "",
                         out \o refLiteral(statement, i, refEnd(statement, i + 4), newRow, oldRow), newRow, oldRow)
  ELSE replaceRefsFrom(statement, i + 1, "", Append(out, At(statement, i)), newRow, oldRow)

replaceRefsIn(statement, newRow, oldRow) == replaceRefsFrom(statement, 0, "", <<>>, newRow, oldRow)

\* statements.push(trimmed) if trimmed is not empty
Pushed(statements, current) == IF trim(current) = <<>> THEN statements ELSE Append(statements, trim(current))

\* the loop of splitStatements at index i
RECURSIVE splitStatementsFrom(_, _, _, _, _)
splitStatementsFrom(text, i, quote, current, statements) ==
  IF i >= Len(text) THEN Pushed(statements, current)
  ELSE IF quote # "" /\ At(text, i) = quote /\ At(text, i + 1) = quote
    THEN splitStatementsFrom(text, i + 2, quote, current \o <<quote, quote>>, statements)
  ELSE IF quote # "" /\ At(text, i) = quote
    THEN splitStatementsFrom(text, i + 1, "", Append(current, quote), statements)
  ELSE IF quote # ""
    THEN splitStatementsFrom(text, i + 1, quote, Append(current, At(text, i)), statements)
  ELSE IF At(text, i) \in {"'", "\""}
    THEN splitStatementsFrom(text, i + 1, At(text, i), Append(current, At(text, i)), statements)
  ELSE IF At(text, i) = ";"
    THEN splitStatementsFrom(text, i + 1, "", <<>>, Pushed(statements, current))
  ELSE splitStatementsFrom(text, i + 1, "", Append(current, At(text, i)), statements)

splitStatements(text) == splitStatementsFrom(text, 0, "", <<>>, <<>>)

\* the statements fireTriggers hands to executeWithCtes for one trigger
parsedStatements(statements) == [n \in 1..Len(statements) |-> parseSql(statements[n], <<>>)]
firedStatements(statement, newRow, oldRow) == parsedStatements(splitStatements(replaceRefsIn(statement, newRow, oldRow)))


(***************************************************************************)
(* tokenize and parseSql as a specification of their own: a text and its   *)
(* params are chosen, then tokenize or parseSql is applied to them; or a   *)
(* trigger body and the triggering row are chosen, and the body is fired.  *)
(***************************************************************************)
\* the words of a statement, one space between two words
RECURSIVE Spaced(_)
Spaced(words) ==
  IF Len(words) = 1 THEN words[1] ELSE words[1] \o <<" ">> \o Spaced(Tail(words))

\* a value position of a statement holds a placeholder or a literal
Slots == {<<"?">>, <<"1">>}

DeleteText(x) == Spaced(<<Kw.Delete, Kw.From, <<"t">>, Kw.Where, <<"a">>, <<"=">>, x>>)
DeleteBetweenText(x, y, z) ==
  Spaced(<<Kw.Delete, Kw.From, <<"t">>, Kw.Where, <<"a">>, <<"<", ">">>, x, Kw.And, Kw.Not, <<"(">>,
           <<"b">>, Kw.Between, y, Kw.And, z, <<")">>, <<";">>>>)
UpdateText(x, y, z) ==
  Spaced(<<Kw.Update, <<"t">>, Kw.Set, <<"a">>, <<"=">>, x, <<",">>, <<"b">>, <<"=">>, y, Kw.Where,
           <<"c">>, Kw.In, <<"(">>, z, <<",">>, <<"'", "?", "'">>, <<")">>>>)
InsertText(x, y, z) ==
  Spaced(<<Kw.Insert, Kw.Into, <<"t">>, <<"(">>, <<"a">>, <<",">>, <<"b">>, <<")">>, Kw.Values,
           <<"(">>, x, <<",">>, y, <<")">>, <<",">>, <<"(">>, z, <<",">>, <<"2">>, <<")">>>>)
CreateTriggerText(x) ==
  Spaced(<<Kw.Create, Kw.Trigger, <<"g">>, Kw.After, Kw.Insert, Kw.On, <<"t">>, Kw.Begin,
           Kw.Delete, Kw.From, <<"u">>, Kw.Where, <<"a">>, <<"=">>, x, <<";">>, Kw.End>>)

ValueStatements ==
  {DeleteText(x) : x \in Slots}
  \cup {DeleteBetweenText(x, y, z) : x \in Slots, y \in Slots, z \in Slots}
  \cup {UpdateText(x, y, z) : x \in Slots, y \in Slots, z \in Slots}
  \cup {InsertText(x, y, z) : x \in Slots, y \in Slots, z \in Slots}
TriggerStatements == {CreateTriggerText(x) : x \in Slots}
SqlTexts == ValueStatements \cup TriggerStatements

ParamValues == {Num(7), Num(8)}
ParamLists == UNION {[1..n -> ParamValues] : n \in 0..MaxParams}

\* short texts of quotes, escapes, letters and blanks
QuoteChars == {"'", "\"", "\\", "a", " "}
QuotedTexts == UNION {[1..n -> QuoteChars] : n \in 0..MaxText}

\* the bodies and the triggering rows explored
NewRef == <<"N", "E", "W", ".", "a">>
OldRef == <<"O", "L", "D", ".", "a">>
InsertBody == Spaced(<<Kw.Insert, Kw.Into, <<"u">>, <<"(">>, <<"a">>, <<")">>, Kw.Values, <<"(">>, NewRef, <<")">>>>)
DeleteBody == Spaced(<<Kw.Delete, Kw.From, <<"u">>, Kw.Where, <<"a">>, <<"=">>, OldRef, <<";">>>>)
TriggerBodies == {InsertBody, DeleteBody}
ValueChars == {"'", "\"", "\\", "-", ";", "a"}
RowTexts == UNION {[1..n -> ValueChars] : n \in 0..MaxValueText}
RowValues == {Null, Bool(TRUE), Bool(FALSE), Num(0), Num(12), Num(0 - 1)} \cup {Text(chars) : chars \in RowTexts}
RowOfValue(value) == [c \in {<<"a">>} |-> value]
NoTriggerRow == [c \in {} |-> Null]

ParserInit ==
  /\ snapshot = emptySnapshot
  /\ dirty = FALSE
  /\ lastInsertId = Null
  /\ lastChanges = 0
  /\ totalChangesValue = 0
  /\ autoSave = FALSE
  /\ stored = NoData
  /\ \/ inputSql \in SqlTexts /\ inputParams \in ParamLists /\ parserResult = [stage |-> "text"]
     \/ inputSql \in QuotedTexts /\ inputParams = <<>> /\ parserResult = [stage |-> "text"]
     \/ inputSql \in TriggerBodies /\ inputParams = <<>>
        /\ \E value \in RowValues : parserResult = [stage |-> "trigger", row |-> RowOfValue(value)]
  /\ properties = NoProperties
  /\ lastSave = [text |-> NoProperty, thrownSince |-> FALSE]
  /\ storeCall = [op |-> "none", threw |-> FALSE, result |-> NoProperty]
  /\ callStack = <<>>
  /\ ManagerIdle

ParserStep(result) ==
  /\ parserResult.stage = "text"
  /\ parserResult' = result
  /\ UNCHANGED <<snapshot, dirty, lastInsertId, lastChanges, totalChangesValue, autoSave, stored, inputSql, inputParams,
                 properties, lastSave, storeCall, callStack>>
  /\ UNCHANGED managerVars

\* tokenize(sql)
Tokenize == ParserStep([stage |-> "tokens", r |-> tokenize(inputSql)])

\* parseSql(sql, params)
ParseSql == ParserStep([stage |-> "query", r |-> parseSql(inputSql, inputParams)])

\* fireTriggers on one trigger: the row is the new row of an INSERT body and
\* the old row of a DELETE body
FireTrigger ==
  /\ parserResult.stage = "trigger"
  /\ parserResult' = [stage |-> "fired", row |-> parserResult.row,
                      r |-> IF inputSql = InsertBody THEN firedStatements(inputSql, parserResult.row, NoTriggerRow)
                            ELSE firedStatements(inputSql, NoTriggerRow, parserResult.row)]
  /\ UNCHANGED <<snapshot, dirty, lastInsertId, lastChanges, totalChangesValue, autoSave, stored, inputSql, inputParams,
                 properties, lastSave, storeCall, callStack>>
  /\ UNCHANGED managerVars

ParserNext == Tokenize \/ ParseSql \/ FireTrigger

ParserSpec == ParserInit /\ [][ParserNext]_vars

(***************************************************************************)
(* WorldDynamicPropertyJsonStore, the chunked store, on its own: the world *)
(* dynamic properties it writes (the meta property and the chunk           *)
(* properties), save, load and clear. A text is the sequence of its UTF-16 *)
(* code units: an ASCII letter (1 byte), a two-byte letter, and the high   *)
(* and low halves of a surrogate pair (4 bytes as a pair, 3 bytes alone).  *)
(***************************************************************************)
Units == {"a", "e_acute", "HIGH", "LOW"}

\* value.codePointAt(i) > 0xffff
IsPairAt(value, i) == At(value, i) = "HIGH" /\ At(value, i + 1) = "LOW"

\* utf8ByteLengthForCodePoint(value.codePointAt(i))
charBytesAt(value, i) ==
  IF IsPairAt(value, i) THEN 4
  ELSE IF At(value, i) = "a" THEN 1
  ELSE IF At(value, i) = "e_acute" THEN 2
  ELSE 3

RECURSIVE utf8ByteLengthFrom(_, _, _)
utf8ByteLengthFrom(value, i, bytes) ==
  IF i >= Len(value) THEN bytes
  ELSE utf8ByteLengthFrom(value, IF IsPairAt(value, i) THEN i + 2 ELSE i + 1, bytes + charBytesAt(value, i))
utf8ByteLength(value) == utf8ByteLengthFrom(value, 0, 0)

\* the loop of splitByUtf8Bytes at index i, the open chunk starting at start
RECURSIVE splitFrom(_, _, _, _, _, _)
splitFrom(value, maxBytes, i, start, usedBytes, chunks) ==
  IF i >= Len(value)
    THEN [err |-> "", chunks |-> IF start < Len(value) THEN Append(chunks, Slice(value, start, Len(value))) ELSE chunks]
  ELSE IF usedBytes + charBytesAt(value, i) > maxBytes /\ start = i
    THEN [err |-> "chunkSize too small to fit character", chunks |-> <<>>]
  ELSE IF usedBytes + charBytesAt(value, i) > maxBytes
    THEN splitFrom(value, maxBytes, IF IsPairAt(value, i) THEN i + 2 ELSE i + 1, i, charBytesAt(value, i),
                   Append(chunks, Slice(value, start, i)))
  ELSE splitFrom(value, maxBytes, IF IsPairAt(value, i) THEN i + 2 ELSE i + 1, start,
                 usedBytes + charBytesAt(value, i), chunks)

splitByUtf8Bytes(value, maxBytes) ==
  IF maxBytes <= 0 THEN [err |-> "chunkSize must be positive.", chunks |-> <<>>]
  ELSE IF Len(value) = 0 THEN [err |-> "", chunks |-> <<>>]
  ELSE splitFrom(value, maxBytes, 0, 0, 0, <<>>)


MetaV2(chunksUsed, totalBytes) == [v |-> 2, chunksUsed |-> chunksUsed, totalBytes |-> totalBytes, encoding |-> "utf8"]
NoMeta == [v |-> 0, chunksUsed |-> 0, totalBytes |-> 0, encoding |-> ""]

\* readMeta on the meta property: the meta of version 2, or NoMeta for undefined.
\* Version 1 is read by the source as well; save never writes it.
readMeta(metaRaw) ==
  IF ~metaRaw.defined THEN NoMeta
  ELSE IF metaRaw.value.v # 2 \/ metaRaw.value.encoding # "utf8" THEN NoMeta
  ELSE IF metaRaw.value.chunksUsed < 0 \/ metaRaw.value.chunksUsed > MaxChunks THEN NoMeta
  ELSE IF metaRaw.value.totalBytes < 0 THEN NoMeta
  ELSE metaRaw.value

\* the chunks of the meta read, one after the other; undefined if one is missing
combinedChunks(props, meta) ==
  IF \E i \in 0..(meta.chunksUsed - 1) : ~props.chunks[i].defined THEN NoProperty
  ELSE Property(Concat([n \in 1..meta.chunksUsed |-> props.chunks[n - 1].value]))

storeLoaded(meta, combined) ==
  IF ~combined.defined THEN NoProperty
  ELSE IF utf8ByteLength(combined.value) # meta.totalBytes THEN NoProperty
  ELSE combined

\* WorldDynamicPropertyJsonStore.load: the text, or undefined
storeLoad(props) ==
  IF readMeta(props.meta) = NoMeta THEN NoProperty
  ELSE storeLoaded(readMeta(props.meta), combinedChunks(props, readMeta(props.meta)))

\* world.setDynamicProperties(values) of save: the meta, the chunks, and
\* undefined for the chunks of the previous payload that are no longer used
storeWritten(props, json, chunks, prevChunks) ==
  [meta |-> Property(MetaV2(Len(chunks), utf8ByteLength(json))),
   chunks |-> [i \in 0..(MaxChunks - 1) |->
                 IF i < Len(chunks) THEN Property(chunks[i + 1])
                 ELSE IF i < prevChunks THEN NoProperty
                 ELSE props.chunks[i]]]

\* save writing what fits before it reports that the text is too large
storeSplitWriting(props, json, split) ==
  IF split.err # "" THEN [err |-> split.err, props |-> props]
  ELSE IF Len(split.chunks) > MaxChunks
    THEN [err |-> "DB too large",
          props |-> storeWritten(props, json, SubSeq(split.chunks, 1, MaxChunks), readMeta(props.meta).chunksUsed)]
  ELSE [err |-> "", props |-> storeWritten(props, json, split.chunks, readMeta(props.meta).chunksUsed)]

storeSplit(props, json, split) ==
  IF split.err # "" THEN [err |-> split.err, props |-> props]
  ELSE IF Len(split.chunks) > MaxChunks THEN [err |-> "DB too large", props |-> props]
  ELSE [err |-> "", props |-> storeWritten(props, json, split.chunks, readMeta(props.meta).chunksUsed)]

\* WorldDynamicPropertyJsonStore.save
storeSave(props, json) == storeSplit(props, json, splitByUtf8Bytes(json, ChunkSize))

\* WorldDynamicPropertyJsonStore.clear
storeClear(props) ==
  [meta |-> NoProperty,
   chunks |-> [i \in 0..(MaxChunks - 1) |-> IF i < readMeta(props.meta).chunksUsed THEN NoProperty ELSE props.chunks[i]]]

StoreTexts == UNION {[1..n -> Units] : n \in 0..MaxStoreText}

StoreInit ==
  /\ snapshot = emptySnapshot
  /\ dirty = FALSE
  /\ lastInsertId = Null
  /\ lastChanges = 0
  /\ totalChangesValue = 0
  /\ autoSave = FALSE
  /\ stored = NoData
  /\ inputSql = <<>>
  /\ inputParams = <<>>
  /\ parserResult = [stage |-> "none"]
  /\ properties = NoProperties
  /\ lastSave = [text |-> NoProperty, thrownSince |-> FALSE]
  /\ storeCall = [op |-> "none", threw |-> FALSE, result |-> NoProperty]
  /\ callStack = <<>>
  /\ ManagerIdle

StoreStep ==
  /\ UNCHANGED managerVars
  /\ UNCHANGED <<snapshot, dirty, lastInsertId, lastChanges, totalChangesValue, autoSave, stored,
              inputSql, inputParams, parserResult, callStack>>

\* save(text): lastSave remembers the text when the call returns
StoreSave ==
  \E json \in StoreTexts :
     /\ properties' = storeSave(properties, json).props
     /\ lastSave' = IF storeSave(properties, json).err = "" THEN [text |-> Property(json), thrownSince |-> FALSE]
                    ELSE [lastSave EXCEPT !.thrownSince = TRUE]
     /\ storeCall' = [op |-> "save", threw |-> storeSave(properties, json).err # "", result |-> NoProperty]
     /\ StoreStep

StoreClear ==
  /\ properties' = storeClear(properties)
  /\ lastSave' = [text |-> NoProperty, thrownSince |-> FALSE]
  /\ storeCall' = [op |-> "clear", threw |-> FALSE, result |-> NoProperty]
  /\ StoreStep

StoreLoad ==
  /\ storeCall' = [op |-> "load", threw |-> FALSE, result |-> storeLoad(properties)]
  /\ UNCHANGED <<properties, lastSave>>
  /\ StoreStep

StoreNext == StoreSave \/ StoreClear \/ StoreLoad

StoreSpec == StoreInit /\ [][StoreNext]_vars

(***************************************************************************)
(* Properties. A property about one statement is stated for every          *)
(* statement of the universe, run on the state reached.                    *)
(***************************************************************************)
\* the single-row INSERT q names an existing table and as many values as columns
WellFormed(q) ==
  /\ HasTable(snapshot, q.table)
  /\ Len(q.values) = 1
  /\ Len(resolveInsertColumns(snapshot.tables[q.table], q.columns)) = Len(q.values[1])

\* the row the INSERT q is to store: its values, the defaults, the generated key
IntendedRow(q) ==
  LET table == snapshot.tables[q.table]
      rowD == WithDefaults(table.def, RowOf(resolveInsertColumns(table, q.columns), q.values[1]))
      pk == table.def.primaryKey
  IN IF pk # NoPk /\ Get(rowD, pk) = Undefined THEN Put(rowD, pk, Num(table.autoInc)) ELSE rowD

\* the row of q has the primary key of a stored row
PkConflict(q) ==
  LET table == snapshot.tables[q.table]
  IN /\ table.def.primaryKey # NoPk
     /\ \E k \in 1..Len(table.rows) :
          Get(table.rows[k], table.def.primaryKey) = Get(IntendedRow(q), table.def.primaryKey)

ViolatesNotNull(q) ==
  \E i \in 1..Len(snapshot.tables[q.table].def.columns) :
     /\ snapshot.tables[q.table].def.columns[i].notNull
     /\ IsNullish(Get(IntendedRow(q), snapshot.tables[q.table].def.columns[i].name))

ViolatesCheck(q) ==
  LET def == snapshot.tables[q.table].def
  IN \/ \E i \in 1..Len(def.columns) :
          def.columns[i].check # NoNode /\ ~rowMatchesWhereBasic(IntendedRow(q), def.columns[i].check)
     \/ \E i \in 1..Len(def.checks) : ~rowMatchesWhereBasic(IntendedRow(q), def.checks[i])

\* a stored row has the same non-null values in every column of a UNIQUE constraint
ViolatesUnique(q) ==
  LET table == snapshot.tables[q.table]
      Same(k, columns) ==
        \A c \in columns :
           /\ ~IsNullish(Get(IntendedRow(q), c))
           /\ Get(table.rows[k], c) = Get(IntendedRow(q), c)
  IN \E k \in 1..Len(table.rows) :
        \/ \E i \in 1..Len(table.def.columns) : table.def.columns[i].unique /\ Same(k, {table.def.columns[i].name})
        \/ \E i \in 1..Len(table.def.uniqueConstraints) : Same(k, Range(table.def.uniqueConstraints[i]))

RowsOf(db, name) == IF HasTable(db.snapshot, name) THEN db.snapshot.tables[name].rows ELSE <<>>

\* C1: a transaction whose callback runs INSERT / UPDATE / DELETE statements and
\* then throws rethrows, and export() afterwards equals export() before the call.
C1_RollbackRestoresExport ==
  \A body \in TxnBodies :
     LET r == transaction(Self, body, TRUE)
     IN r.err # "" /\ export(r.db) = export(Self)

\* a state with rows where a callback changes the catalog, throws, and is rolled back
C1_Witness ==
  /\ Len(RowsOf(Self, "t")) >= 1
  /\ \E body \in TxnBodies :
       /\ runStatements(Self, body, 1).err = ""
       /\ export(runStatements(Self, body, 1).db) # export(Self)
       /\ transaction(Self, body, TRUE).err = "THROWN"
       /\ export(transaction(Self, body, TRUE).db) = export(Self)

\* C2: no table that has a primary key holds two rows with the same primary-key value.
C2_PrimaryKeysUnique ==
  \A n \in DOMAIN snapshot.tables :
     LET table == snapshot.tables[n]
     IN table.def.primaryKey # NoPk =>
          \A i, j \in 1..Len(table.rows) :
             i # j => Get(table.rows[i], table.def.primaryKey) # Get(table.rows[j], table.def.primaryKey)

\* C3: in a table whose primary key column is INTEGER or REAL, autoInc is
\* strictly greater than every primary-key value stored in its rows.
C3_AutoIncAboveKeys ==
  \A n \in DOMAIN snapshot.tables :
     LET table == snapshot.tables[n]
     IN (table.def.primaryKey # NoPk /\ IsNumericType(primaryKeyColumn(table.def).type)) =>
          \A i \in 1..Len(table.rows) :
             Get(table.rows[i], table.def.primaryKey).k = "number" =>
               table.autoInc > Get(table.rows[i], table.def.primaryKey).v

\* C4: a single-row plain INSERT whose row violates NOT NULL, a CHECK, the
\* primary key or a UNIQUE constraint raises an error, and the table has as
\* many rows after the failed statement as before it.
C4_ViolatingInsertFails ==
  \A q \in InsertStmts :
     (q.or = "" /\ WellFormed(q) /\ (ViolatesNotNull(q) \/ ViolatesCheck(q) \/ PkConflict(q) \/ ViolatesUnique(q))) =>
        /\ execute(Self, q).err # ""
        /\ Len(RowsOf(execute(Self, q).db, q.table)) = Len(RowsOf(Self, q.table))

\* a state where one INSERT is refused for NOT NULL, one for CHECK and one as a duplicate
C4_Witness ==
  /\ \E q \in InsertStmts : q.or = "" /\ WellFormed(q) /\ ViolatesNotNull(q) /\ execute(Self, q).err = "NOT_NULL"
  /\ \E q \in InsertStmts : q.or = "" /\ WellFormed(q) /\ ViolatesCheck(q) /\ execute(Self, q).err = "CHECK"
  /\ \E q \in InsertStmts :
       q.or = "" /\ WellFormed(q) /\ ViolatesUnique(q) /\ execute(Self, q).err = "DUPLICATE_UNIQUE_CONSTRAINT"

\* C5: after INSERT OR REPLACE of a row whose primary key is the key of a stored
\* row, the table holds exactly one row with that key, and it is the new row.
C5_ReplaceLeavesOneRow ==
  \A q \in InsertStmts :
     (q.or = "REPLACE" /\ WellFormed(q) /\ PkConflict(q) /\ execute(Self, q).err = "") =>
        LET rows == RowsOf(execute(Self, q).db, q.table)
            pk == snapshot.tables[q.table].def.primaryKey
            withKey == {k \in 1..Len(rows) : Get(rows[k], pk) = Get(IntendedRow(q), pk)}
        IN /\ Cardinality(withKey) = 1
           /\ \A k \in withKey : rows[k] = IntendedRow(q)

\* a state with two rows where a REPLACE of one of them, with other values, succeeds
C5_Witness ==
  /\ Len(RowsOf(Self, "t")) = 2
  /\ \E q \in InsertStmts :
       /\ q.or = "REPLACE" /\ WellFormed(q) /\ PkConflict(q) /\ execute(Self, q).err = ""
       /\ \A k \in 1..Len(RowsOf(Self, "t")) : RowsOf(Self, "t")[k] # IntendedRow(q)
       /\ Len(RowsOf(execute(Self, q).db, "t")) = 2

\* C6: INSERT OR IGNORE of a row that has the primary key of a stored row leaves
\* every stored row of the table unchanged, and the statement reports changes = 0.
C6_IgnoreLeavesRows ==
  \A q \in InsertStmts :
     (q.or = "IGNORE" /\ WellFormed(q) /\ PkConflict(q)) =>
        /\ RowsOf(execute(Self, q).db, q.table) = RowsOf(Self, q.table)
        /\ execute(Self, q).err = "" => (execute(Self, q).changes = 0 /\ execute(Self, q).db.lastChanges = 0)

\* a state where an IGNORE of a row with a stored key and other values returns
C6_Witness ==
  \E q \in InsertStmts :
     /\ q.or = "IGNORE" /\ WellFormed(q) /\ PkConflict(q)
     /\ \A k \in 1..Len(RowsOf(Self, "t")) : RowsOf(Self, "t")[k] # IntendedRow(q)
     /\ execute(Self, q).err = ""
     /\ lastChanges > 0

\* C7: SELECT * FROM t returns one row per stored row, in insertion order, each
\* with exactly the table's columns as keys and the stored values.
C7_SelectStarReturnsRows ==
  HasTable(snapshot, "t") =>
    LET out == execute(Self, SelectStar("t", NoNode)).rows
        table == snapshot.tables["t"]
    IN /\ Len(out) = Len(table.rows)
       /\ \A i \in 1..Len(out) :
            /\ DOMAIN out[i] = ColumnNamesOf(table.def)
            /\ \A c \in ColumnNamesOf(table.def) : out[i][c] = Get(table.rows[i], c)

\* C8: a fresh instance that imports this instance's export() exports the same text.
C8_ImportReproducesExport == export(import(Fresh, export(Self)).db) = export(Self)

\* a catalog with rows, a moved autoInc counter and a trigger, imported without error
C8_Witness ==
  /\ Len(RowsOf(Self, "t")) >= 1
  /\ snapshot.tables["t"].autoInc > 1
  /\ Len(snapshot.triggers) >= 1
  /\ import(Fresh, export(Self)).err = ""
  /\ import(Fresh, export(Self)).db.snapshot = snapshot

\* C9: the key set of every stored row is the set of column names of its table.
C9_RowKeysAreColumns ==
  \A n \in DOMAIN snapshot.tables :
     \A i \in 1..Len(snapshot.tables[n].rows) :
        DOMAIN snapshot.tables[n].rows[i] = ColumnNamesOf(snapshot.tables[n].def)

\* the new row r and a stored row agree, non-null, on every column of a uniqueness constraint
RealDuplicate(table, r, others) ==
  LET Same(k, columns) ==
        \A c \in columns : ~IsNullish(Get(r, c)) /\ Get(table.rows[k], c) = Get(r, c)
  IN \E k \in others :
        \/ table.def.primaryKey # NoPk /\ Same(k, {table.def.primaryKey})
        \/ \E i \in 1..Len(table.def.columns) : table.def.columns[i].unique /\ Same(k, {table.def.columns[i].name})
        \/ \E i \in 1..Len(table.def.uniqueConstraints) : Same(k, Range(table.def.uniqueConstraints[i]))

DuplicateErrors == {"DUPLICATE_PK", "DUPLICATE_UNIQUE", "DUPLICATE_UNIQUE_CONSTRAINT"}

\* C10: INSERT and UPDATE report a duplicate only when every column of the
\* constraint is present and non-null in both the new row and a stored row.
C10_DuplicateOnlyOnNonNull ==
  /\ \A q \in InsertStmts :
       (q.or = "" /\ WellFormed(q) /\ execute(Self, q).err \in DuplicateErrors) =>
          RealDuplicate(snapshot.tables[q.table], IntendedRow(q), 1..Len(snapshot.tables[q.table].rows))
  /\ \A q \in UpdateStmts :
       (HasTable(snapshot, q.table) /\ execute(Self, q).err \in DuplicateErrors) =>
          LET table == execute(Self, q).db.snapshot.tables[q.table]
          IN \E i \in 1..Len(table.rows) :
                RealDuplicate(table, Spread(table.rows[i], q.set), (1..Len(table.rows)) \ {i})

\* C11: after an INSERT into a table with a numeric primary key returns, with or
\* without triggers on the table, getLastInsertId() is the primary key of the
\* last row the statement inserted (the last row of the table, rows being pushed).
C11_LastInsertIdIsLastKey ==
  \A q \in InsertStmts :
     (WellFormed(q) /\ NumericPk(snapshot.tables[q.table].def)
        /\ execute(Self, q).err = "" /\ execute(Self, q).changes > 0) =>
        LET rows == RowsOf(execute(Self, q).db, q.table)
        IN execute(Self, q).db.lastInsertId = Get(rows[Len(rows)], snapshot.tables[q.table].def.primaryKey)

\* the positions of the stored rows of q's table that q's WHERE clause matches
Matching(q) ==
  {i \in 1..Len(RowsOf(Self, q.table)) : rowMatchesWhere(RowsOf(Self, q.table)[i], q.where, EmptyRow)}

\* C12: UPDATE ... RETURNING * that returns gives the stored post-update rows of
\* the rows it modified (those its WHERE matched), in storage order; changes()
\* is their number; the modified rows carry the SET values and the others are
\* as before.
C12_UpdateReturningStar ==
  \A q \in UpdateStmts :
     LET r == execute(Self, Returning(q, ReturningStar))
         before == RowsOf(Self, q.table)
         after == RowsOf(r.db, q.table)
     IN (HasTable(snapshot, q.table) /\ r.err = "") =>
          /\ Len(after) = Len(before)
          /\ \A i \in 1..Len(before) :
               after[i] = IF i \in Matching(q) THEN Spread(before[i], q.set) ELSE before[i]
          /\ r.rows = [n \in 1..Cardinality(Matching(q)) |-> after[Nth(Matching(q), n)]]
          /\ r.changes = Cardinality(Matching(q))
          /\ r.db.lastChanges = Cardinality(Matching(q))

\* a state with two rows where one UPDATE ... RETURNING * changes the second row
\* only, and another changes both rows
C12_Witness ==
  /\ Len(RowsOf(Self, "t")) = 2
  /\ \E q \in UpdateStmts :
       LET r == execute(Self, Returning(q, ReturningStar))
       IN r.err = "" /\ Matching(q) = {2} /\ r.rows # <<RowsOf(Self, "t")[2]>>
  /\ \E q \in UpdateStmts :
       LET r == execute(Self, Returning(q, ReturningStar))
       IN r.err = "" /\ Len(r.rows) = 2 /\ r.rows[1] # RowsOf(Self, "t")[1] /\ r.rows[2] # RowsOf(Self, "t")[2]

\* the audit row the trigger body writes for a row of t: NEW.id as a literal
AuditRow(row) == [c \in {"tid"} |-> IF IsNullish(Get(row, "id")) THEN Null ELSE Get(row, "id")]

\* C13: with the AFTER INSERT trigger on t that inserts NEW.id into the audit
\* table, every INSERT on t appends to the audit table one row per row it
\* inserted into t, carrying that row's id, and nothing else: a statement that
\* returns appends the ids of the rows it inserted, in order; a statement that
\* throws either left both tables as they were or had inserted its row with
\* its audit row.
C13_AuditRowPerInsert ==
  snapshot.triggers = <<AuditTrigger.trigger>> =>
    \A q \in InsertStmts :
       LET r == execute(Self, Returning(q, ReturningStar))
           log == RowsOf(Self, "log")
           after == RowsOf(r.db, "log")
           rows == RowsOf(r.db, q.table)
       IN WellFormed(q) =>
            IF r.err = ""
              THEN after = log \o [n \in 1..Len(r.rows) |-> AuditRow(r.rows[n])]
              ELSE \/ after = log /\ rows = RowsOf(Self, q.table)
                   \/ /\ after = Append(log, AuditRow(IntendedRow(q)))
                      /\ rows # <<>>
                      /\ rows[Len(rows)] = IntendedRow(q)

\* a state with the trigger and audited rows where one more INSERT on t returns
\* and its generated id reaches the audit table
C13_Witness ==
  /\ snapshot.triggers = <<AuditTrigger.trigger>>
  /\ Len(RowsOf(Self, "log")) >= 1
  /\ Len(RowsOf(Self, "log")) = Len(RowsOf(Self, "t"))
  /\ \E q \in InsertStmts :
       LET r == execute(Self, Returning(q, ReturningStar))
       IN /\ WellFormed(q) /\ q.columns = <<"a">> /\ r.err = "" /\ Len(r.rows) = 1
          /\ Get(r.rows[1], "id").k = "number"
          /\ RowsOf(r.db, "log") = Append(RowsOf(Self, "log"), [c \in {"tid"} |-> Get(r.rows[1], "id")])

\* the statements that empty table b, after one more INSERT on t or on their own
EmptyingOf(b) ==
  {<<Delete(b, NoNode)>>}
  \cup {<<Insert("t", <<"a">>, << <<v>> >>, ""), Delete(b, NoNode)>> : v \in {Num(1), Num(2)}}

\* C14: for a left table a and an existing, empty right table b, a LEFT JOIN b
\* ON cond returns one row per row of a, in order, that holds the values of
\* the row of a and null in every column b.col of b; a INNER JOIN b ON cond
\* returns no row.
C14_JoinEmptyRight ==
  \A tables \in {<<"t", "log">>, <<"log", "t">>}, on \in JoinConditions :
     \A setup \in EmptyingOf(tables[2]) :
        LET a == tables[1]
            b == tables[2]
            db == runStatements(Self, setup, 1).db
            left == execute(db, Join(SelectStar(a, NoNode), "LEFT", b, on)).rows
            inner == execute(db, Join(SelectStar(a, NoNode), "INNER", b, on)).rows
        IN (HasTable(db.snapshot, a) /\ HasTable(db.snapshot, b) /\ RowsOf(db, b) = <<>>) =>
             /\ inner = <<>>
             /\ Len(left) = Len(RowsOf(db, a))
             /\ \A i \in 1..Len(left) :
                  /\ \A c \in ColumnNamesOf(db.snapshot.tables[b].def) : Get(left[i], Qualify(b, c)) = Null
                  /\ \A c \in DOMAIN RowsOf(db, a)[i] :
                       left[i][c] = RowsOf(db, a)[i][c] /\ left[i][Qualify(a, c)] = RowsOf(db, a)[i][c]

\* a state with the audit table where, once a second row is inserted into t and
\* the audit table is emptied, the LEFT JOIN returns the two rows of t with
\* log.tid null and the INNER JOIN none
C14_Witness ==
  /\ HasTable(snapshot, "log")
  /\ \E setup \in EmptyingOf("log"), on \in JoinConditions :
       LET db == runStatements(Self, setup, 1).db
           left == execute(db, Join(SelectStar("t", NoNode), "LEFT", "log", on)).rows
       IN /\ RowsOf(Self, "log") # <<>> /\ RowsOf(db, "log") = <<>>
          /\ Len(RowsOf(db, "t")) = 2 /\ Len(left) = 2
          /\ left[1]["log.tid"] = Null /\ left[2]["log.tid"] = Null
          /\ left[2]["t.id"] = RowsOf(db, "t")[2]["id"]
          /\ execute(db, Join(SelectStar("t", NoNode), "INNER", "log", on)).rows = <<>>

\* the aggregate SELECT of C15 over column col of t
AggregatesOf(col, where) ==
  Select(<<Aggregate("COUNT", NoRef), Aggregate("SUM", Ref(col)), Aggregate("AVG", Ref(col))>>, "t", where)

\* WHERE clauses that can match no row of a table that has rows
NoMatchWheres == Wheres \cup {Clause("a", "=", Num(2)), Not(NoNode), Clause("id", ">", Num(1))}

MatchesNone(db, where) ==
  \A i \in 1..Len(RowsOf(db, "t")) : ~rowMatchesWhere(RowsOf(db, "t")[i], where, EmptyRow)

\* C15: a SELECT over an existing table with aggregate columns and no GROUP BY
\* whose WHERE matches zero rows returns exactly one row, in which COUNT(*) is 0
\* and SUM(col) and AVG(col) are null.
C15_AggregateOverNoRows ==
  \A col \in {"a", "id"}, where \in NoMatchWheres :
     LET r == execute(Self, AggregatesOf(col, where))
     IN (HasTable(snapshot, "t") /\ MatchesNone(Self, where)) =>
          /\ r.err = ""
          /\ Len(r.rows) = 1
          /\ DOMAIN r.rows[1] = {"COUNT(*)", AggregateNames.SUM[col], AggregateNames.AVG[col]}
          /\ Get(r.rows[1], "COUNT(*)") = Num(0)
          /\ Get(r.rows[1], AggregateNames.SUM[col]) = Null
          /\ Get(r.rows[1], AggregateNames.AVG[col]) = Null

\* a table with rows, none of which the WHERE clause matches, queried
C15_Witness ==
  /\ HasTable(snapshot, "t")
  /\ Len(RowsOf(Self, "t")) > 0
  /\ \E where \in NoMatchWheres \ {NoNode} :
       /\ MatchesNone(Self, where)
       /\ Len(execute(Self, AggregatesOf("a", where)).rows) = 1

\* the indexes of the placeholder tokens of a text
IndexesIn(tokens) == {tokens[n].index : n \in {m \in 1..Len(tokens) : tokens[m].type = "placeholder"}}
PlaceholderIndexes(text) == IndexesIn(tokenize(text).tokens)

\* the text with its i-th placeholder, i up to the number of params, written
\* as the literal of the i-th param
Bind(text, values, indexes) ==
  [n \in 1..Len(text) |->
     IF (n - 1) \in indexes /\ Cardinality({j \in indexes : j <= n - 1}) <= Len(values)
       THEN DigitChars[values[Cardinality({j \in indexes : j <= n - 1})].v + 1]
     ELSE text[n]]
BoundText(text, values) == Bind(text, values, PlaceholderIndexes(text))

BoundAs(result, text, values, indexes) ==
  IF Cardinality(indexes) > Len(values) THEN result.err # ""
  ELSE result = parseSql(Bind(text, values, indexes), <<>>)

PlaceholdersBound(texts) ==
  (parserResult.stage = "query" /\ inputSql \in texts) =>
     BoundAs(parserResult.r, inputSql, inputParams, PlaceholderIndexes(inputSql))

\* C16: parseSql binds the i-th placeholder of the statement to the i-th
\* element of params, whatever the statement and the number of placeholders, and
\* raises an error when the statement has more placeholders than params.
C16_PlaceholdersBoundInOrder == PlaceholdersBound(SqlTexts)

\* the same for the statements whose placeholders all stand where a value is parserResult
ValuePlaceholdersBound == PlaceholdersBound(ValueStatements)

\* an INSERT with three placeholders parsed with three params, in order
ValuePlaceholdersWitness ==
  /\ parserResult.stage = "query" /\ inputSql = InsertText(<<"?">>, <<"?">>, <<"?">>) /\ inputParams = <<Num(7), Num(8), Num(7)>>
  /\ parserResult.r.err = "" /\ parserResult.r.query.values = << <<Num(7), Num(8)>>, <<Num(7), Num(2)>> >>

\* an unterminated quoted literal: the text opens with a quote and holds no
\* other quote of that kind
Unterminated(text) ==
  /\ Len(text) >= 1 /\ text[1] \in {"'", "\""}
  /\ \A n \in 2..Len(text) : text[n] # text[1]

\* C20: tokenize raises an error on every text with an unterminated single- or
\* double-quoted string.
C20_UnterminatedStringRaises ==
  (parserResult.stage = "tokens" /\ Unterminated(inputSql)) => parserResult.r.err # ""

\* a catalog whose table t holds one row more than the store can take
Overfull(db) ==
  [db EXCEPT !.snapshot.tables["t"].rows = [i \in 1..(StoreCapacity + 1) |-> Put(EmptyRow, "id", Num(i))]]

\* texts handed to import(): the facade's own export, the same text under
\* another version, and the export of a catalog too large for the store
ImportTexts ==
  {export(Self), [export(Self) EXCEPT !.v = 0], [export(Self) EXCEPT !.v = 2]}
  \cup (IF HasTable(snapshot, "t") THEN {export(Overfull(Self))} ELSE {})

\* import of a text whose version is not 1 raises and leaves the catalog and
\* the payload of the store as they were
VersionRefused ==
  \A text \in ImportTexts :
     text.v # 1 =>
       /\ import(Self, text).err # ""
       /\ import(Self, text).db.snapshot = snapshot
       /\ import(Self, text).db.stored = stored

\* a catalog with rows, saved, and a text of version 2 refused
VersionRefusedWitness ==
  /\ Len(RowsOf(Self, "t")) > 0 /\ stored # NoData
  /\ import(Self, [export(Self) EXCEPT !.v = 2]).err # ""

\* C17: import(data) whose version field is not 1 raises and leaves the catalog
\* and the payload of the store exactly as they were; and any import() call that
\* raises leaves the catalog unchanged.
C17_FailedImportLeavesCatalog ==
  /\ VersionRefused
  /\ \A text \in ImportTexts : import(Self, text).err # "" => import(Self, text).db.snapshot = snapshot

\* C18: after any sequence of save(text) and clear() calls on the chunked store,
\* some of the saves throwing, load() returns exactly the text of the most
\* recent save() that returned, or undefined if there is none since the last
\* clear(); a load() made has returned it.
C18_LoadReturnsLastSave ==
  /\ storeLoad(properties) = lastSave.text
  /\ storeCall.op = "load" => storeCall.result = lastSave.text

\* a load() returning a text of two chunks after a later save() has thrown
C18_Witness ==
  /\ storeCall.op = "load" /\ storeCall.result = lastSave.text
  /\ lastSave.thrownSince /\ lastSave.text.defined
  /\ Len(splitByUtf8Bytes(lastSave.text.value, ChunkSize).chunks) = 2

\* a new WorldSqlDatabase constructed over the storage of db, after its load()
Reopened(db) == load([Fresh EXCEPT !.stored = db.stored])

\* C19: after save() returns on the facade, a fresh facade over the same
\* storage that calls load() holds a catalog whose export() equals the
\* saving facade's export(), in every catalog state the facade reaches.
C19_SaveThenLoadRoundTrips ==
  save(Self).err = "" => export(Reopened(save(Self).db)) = export(save(Self).db)

\* the groups a record id is a member of
GroupsOf(map, recordId) == {n \in DOMAIN map : recordId \in map[n]}

\* C21: after any sequence of createGroup, deleteGroup, setRecordGroup and
\* clearRecordGroup calls (and restarts of the scripts), every record id is a
\* member of at most one group, in the module's map and in the map the stored
\* property loads to.
C21_OneGroupPerRecord ==
  \A id \in RecordIds :
     /\ Cardinality(GroupsOf(groups, id)) <= 1
     /\ Cardinality(GroupsOf(ensureLoaded(GroupsModule(FALSE, NoGroups, groupsProperty)).groups, id)) <= 1

\* two groups with a member each, the state setRecordGroup leaves
C21_Witness ==
  /\ loaded
  /\ DOMAIN groups = {"teamA", "teamB"}
  /\ groups["teamA"] = {"r2"} /\ groups["teamB"] = {"r1"}
  /\ groupsProperty = Property(stringifyGroups(groups))

\* C22: for a group whose OpTarget, OpType and OpValue are set, a tick at
\* which the group's OpSeq differs from its value at the previous tick has
\* applied the operation exactly once to every member record, and a tick at
\* which OpSeq is what it was at the previous tick has applied it to none.
C22_OperationAppliedOncePerChange ==
  lastTick.ran =>
    /\ \A n \in lastTick.changed : \A id \in lastTick.members[n] : lastTick.applied[id] = 1
    /\ \A n \in lastTick.unchanged : \A id \in lastTick.members[n] : lastTick.applied[id] = 0

MinMaxOf(col) == Select(<<Aggregate("MIN", Ref(col)), Aggregate("MAX", Ref(col))>>, "t", NoNode)

\* the values of a column of the stored rows of t
ColumnValues(db, col) == {Get(RowsOf(db, "t")[i], col) : i \in 1..Len(RowsOf(db, "t"))}
IsLeast(v, values) == v \in values /\ \A w \in values : compareForSort(v, w) <= 0
IsGreatest(v, values) == v \in values /\ \A w \in values : compareForSort(v, w) >= 0

\* the facade with the rows of t in the opposite order
Reversed(db) ==
  [db EXCEPT !.snapshot.tables["t"].rows = [i \in 1..Len(RowsOf(db, "t")) |-> RowsOf(db, "t")[Len(RowsOf(db, "t")) + 1 - i]]]

MinMaxRow(db, col) == execute(db, MinMaxOf(col)).rows[1]

\* C23: MIN(col) and MAX(col) over the rows of a table are the least and the
\* greatest of the column's values under compareForSort (null before
\* everything, numbers numerically), and are the same for the rows in the
\* opposite order.
C23_MinMaxAreExtremes ==
  \A col \in {"a", "id"} :
     (HasTable(snapshot, "t") /\ Len(RowsOf(Self, "t")) > 0) =>
        /\ IsLeast(Get(MinMaxRow(Self, col), AggregateNames.MIN[col]), ColumnValues(Self, col))
        /\ IsGreatest(Get(MinMaxRow(Self, col), AggregateNames.MAX[col]), ColumnValues(Self, col))
        /\ MinMaxRow(Reversed(Self), col) = MinMaxRow(Self, col)

OrderedBy(db, col, direction, nulls) == execute(db, OrderBy(SelectStar("t", NoNode), <<OrderKey(col, direction, nulls)>>)).rows

\* in rows, the rows with a null key stand before (FIRST) or behind (LAST) the others
NullsPlaced(rows, col, nulls) ==
  \A i \in 1..Len(rows), j \in 1..Len(rows) :
     (IsNullish(Get(rows[i], col)) /\ ~IsNullish(Get(rows[j], col))) => IF nulls = "FIRST" THEN i < j ELSE i > j

\* in rows, the non-null keys ascend (ASC) or descend (DESC)
KeysInDirection(rows, col, direction) ==
  \A i \in 1..Len(rows), j \in 1..Len(rows) :
     (i < j /\ ~IsNullish(Get(rows[i], col)) /\ ~IsNullish(Get(rows[j], col))) =>
        IF direction = "ASC" THEN compareForSort(Get(rows[i], col), Get(rows[j], col)) <= 0
        ELSE compareForSort(Get(rows[i], col), Get(rows[j], col)) >= 0

\* C24: in the result of ORDER BY k [ASC|DESC] NULLS FIRST every row with a null
\* key precedes every row with a non-null key, with NULLS LAST it follows
\* them, for ASC and for DESC; the non-null keys ascend for ASC and descend
\* for DESC.
C24_NullsPlacedAsWritten ==
  \A col \in {"a", "id"}, direction \in {"ASC", "DESC"}, nulls \in {"FIRST", "LAST"} :
     HasTable(snapshot, "t") =>
        /\ NullsPlaced(OrderedBy(Self, col, direction, nulls), col, nulls)
        /\ KeysInDirection(OrderedBy(Self, col, direction, nulls), col, direction)

\* the same for ASC alone
AscendingNullsPlaced ==
  \A col \in {"a", "id"}, nulls \in {"FIRST", "LAST"} :
     HasTable(snapshot, "t") =>
        /\ NullsPlaced(OrderedBy(Self, col, "ASC", nulls), col, nulls)
        /\ KeysInDirection(OrderedBy(Self, col, "ASC", nulls), col, "ASC")

\* the value the fired body stores (INSERT) or compares with (DELETE)
StoredValue(query) == IF query.type = "insert" THEN query.values[1][1] ELSE query.where.clause.value

\* C25: when a trigger fires, the NEW.col / OLD.col reference of its body
\* evaluates to exactly the value of col in the triggering row: the body is one
\* statement, it parses, and the value it holds is the row's value, for null,
\* booleans, numbers and strings (with quotes, backslashes, -- or ;).
C25_TriggerRefIsRowValue ==
  parserResult.stage = "fired" =>
    /\ Len(parserResult.r) = 1
    /\ parserResult.r[1].err = ""
    /\ StoredValue(parserResult.r[1].query) = parserResult.row[<<"a">>]

\* the same for the values that are no string, and the strings without a
\* backslash and without --
PlainValue(value) ==
  value.k = "string" =>
    /\ \A n \in 1..Len(value.v) : value.v[n] # "\\"
    /\ \A n \in 1..(Len(value.v) - 1) : ~(value.v[n] = "-" /\ value.v[n + 1] = "-")
PlainTriggerRefIsRowValue ==
  (parserResult.stage = "fired" /\ PlainValue(parserResult.row[<<"a">>])) =>
    /\ Len(parserResult.r) = 1
    /\ parserResult.r[1].err = ""
    /\ StoredValue(parserResult.r[1].query) = parserResult.row[<<"a">>]


\* C26: every exec() call comes to an end: once exec() is running, it returns
\* a result or raises an error, whatever triggers the catalog holds (an
\* INSERT trigger on a table whose body inserts into that table included).
C26_ExecTerminates == (callStack # <<>>) ~> (callStack = <<>>)

\* the columns a CHECK expression names
RECURSIVE NamedIn(_)
NamedIn(node) ==
  CASE node.type = "clause" -> {node.clause.column.column}
    [] node.type = "not" -> NamedIn(node.node)
    [] node.type \in {"and", "or"} -> NamedIn(node.left) \cup NamedIn(node.right)
    [] OTHER -> {}

\* the column names a table definition refers to: columns, primary key, UNIQUE and CHECK constraints
NamesOfDef(def) ==
  ColumnNamesOf(def)
  \cup (IF def.primaryKey = NoPk THEN {} ELSE {def.primaryKey})
  \cup UNION {Range(def.uniqueConstraints[i]) : i \in 1..Len(def.uniqueConstraints)}
  \cup UNION {NamedIn(def.columns[i].check) : i \in 1..Len(def.columns)}
  \cup UNION {NamedIn(def.checks[i]) : i \in 1..Len(def.checks)}

\* the row passes what INSERT tests on a row by itself: the column loop and the CHECK constraints
AcceptedRow(table, row) ==
  FirstError(<<InsertColumnError(table.def, row, row), validateChecks(table, row)>>) = ""

\* table became after by RENAME COLUMN from TO to
RenamedThroughout(table, after, from, to) ==
  /\ to \in NamesOfDef(after.def)
  /\ from \notin NamesOfDef(after.def)
  /\ Len(after.rows) = Len(table.rows)
  /\ \A i \in 1..Len(table.rows) :
       /\ Get(after.rows[i], to) = Get(table.rows[i], from)
       /\ AcceptedRow(table, table.rows[i]) => AcceptedRow(after, after.rows[i])

\* C27: after ALTER TABLE t RENAME COLUMN a TO b the column list, the primary
\* key, the UNIQUE and the CHECK constraints name b and none names a, every
\* stored row holds under b the value it held under a, and a row that passed
\* the table's constraints before the rename passes them after it.
C27_RenameReachesEveryConstraint ==
  HasTable(snapshot, "t") =>
    \A from \in ColumnNamesOf(snapshot.tables["t"].def) :
      alterTableRenameColumn(Self, "t", from, "z").err = "" =>
        RenamedThroughout(snapshot.tables["t"],
                          alterTableRenameColumn(Self, "t", from, "z").db.snapshot.tables["t"], from, "z")

\* the same for a column that no CHECK constraint names
C27_RenameOfUncheckedColumn ==
  HasTable(snapshot, "t") =>
    \A from \in ColumnNamesOf(snapshot.tables["t"].def) :
      /\ alterTableRenameColumn(Self, "t", from, "z").err = ""
      /\ \A i \in 1..Len(snapshot.tables["t"].def.columns) : from \notin NamedIn(snapshot.tables["t"].def.columns[i].check)
      /\ \A i \in 1..Len(snapshot.tables["t"].def.checks) : from \notin NamedIn(snapshot.tables["t"].def.checks[i])
      => RenamedThroughout(snapshot.tables["t"],
                           alterTableRenameColumn(Self, "t", from, "z").db.snapshot.tables["t"], from, "z")

\* the table the statement names is not in the catalog
NamesMissingTable(q) ==
  IF q.type = "select" THEN ~HasTable(snapshot, q.from.name) ELSE ~HasTable(snapshot, q.table)

\* C28: a SELECT, INSERT, UPDATE or DELETE naming a table that is not in the
\* catalog raises an error, and the catalog holds the same tables after the
\* statement as before it.
C28_MissingTableRaises ==
  \A q \in SelectStmts \cup DmlStmts :
    NamesMissingTable(q) =>
      /\ execute(Self, q).err # ""
      /\ DOMAIN execute(Self, q).db.snapshot.tables = DOMAIN snapshot.tables

\* what the statements do instead: SELECT, UPDATE and DELETE return an empty
\* result, and an INSERT with a column list creates the table (whether or
\* not its row is then accepted)
C28_MissingTableGoesUnreported ==
  \A q \in SelectStmts \cup DmlStmts :
    NamesMissingTable(q) =>
      /\ q.type # "insert" =>
           execute(Self, q).err = "" /\ execute(Self, q).db.snapshot = snapshot /\ execute(Self, q).rows = <<>>
      /\ q.type = "insert" /\ q.columns # <<>> => HasTable(execute(Self, q).db.snapshot, q.table)

\* the payload of the storage collaborator decodes to the catalog in memory
StoredIsCurrent(db) == Reopened(db).snapshot = db.snapshot

\* C29: with autoSave enabled, after transaction(fn) has thrown and rolled the
\* catalog back, the stored payload decodes to the in-memory (pre-transaction)
\* catalog: load() brings back no mutation the failed callback made.
C29_RollbackReachesStorage ==
  (autoSave /\ HasTable(snapshot, "t") /\ StoredIsCurrent(Self)) =>
    \A body \in TxnBodies :
      transaction(Self, body, TRUE).err # "" =>
        /\ transaction(Self, body, TRUE).db.snapshot = snapshot
        /\ StoredIsCurrent(transaction(Self, body, TRUE).db)

\* without autoSave the failed transaction leaves the stored payload as it was
C29_RollbackWithoutAutoSave ==
  ~autoSave => \A body \in TxnBodies : transaction(Self, body, TRUE).db.stored = stored

\* INSERT INTO t (a) VALUES (u), (v), (w) and INSERT INTO t VALUES (u1, u2), (v1, v2), (w1, w2), with and without OR
LastRows == {<<Null, Null>>, <<Num(1), Num(2)>>}
MultiRowInserts ==
  {Insert("t", <<"a">>, << <<u>>, <<v>>, <<w>> >>, or) : u \in Values, v \in Values, w \in Values, or \in OrActions}
  \cup {Insert("t", <<>>, << <<u[1], u[2]>>, <<v[1], v[2]>>, w >>, or) :
          u \in Values \X Values, v \in Values \X Values, w \in LastRows, or \in OrActions}

ConstraintErrors ==
  {"NOT_NULL", "TYPE", "CHECK", "PK_REQUIRED", "PK_NOT_A_NUMBER",
   "DUPLICATE_PK", "DUPLICATE_UNIQUE", "DUPLICATE_UNIQUE_CONSTRAINT"}

\* the statement with its first k rows only
FirstRows(q, k) == [q EXCEPT !.values = SubSeq(@, 1, k)]

\* the row of the statement that raises: the VALUES loop accepts the rows before it
FailingRow(q) ==
  CHOOSE k \in 1..Len(q.values) :
    insertRows(Self, FirstRows(q, k), 0).err # "" /\ (k > 1 => insertRows(Self, FirstRows(q, k - 1), 0).err = "")

\* the stored row carries the values of row i of the statement under the statement's columns
StoredFrom(row, q, i) ==
  \A j \in 1..Len(q.values[i]) :
    Get(row, resolveInsertColumns(snapshot.tables[q.table], q.columns)[j]) = q.values[i][j]

\* r is what exec(q) left after raising on row k: the table is the table before
\* with rows 1..k-1 of the statement appended, and the counters are untouched
EarlierRowsOnly(q, r, k) ==
  /\ Len(RowsOf(r.db, q.table)) = Len(RowsOf(Self, q.table)) + k - 1
  /\ SubSeq(RowsOf(r.db, q.table), 1, Len(RowsOf(Self, q.table))) = RowsOf(Self, q.table)
  /\ \A i \in 1..(k - 1) : StoredFrom(RowsOf(r.db, q.table)[Len(RowsOf(Self, q.table)) + i], q, i)
  /\ r.db.lastChanges = lastChanges
  /\ r.db.totalChangesValue = totalChangesValue

\* a multi-row INSERT of the universe that raises a constraint error, on a table without triggers
FailsOnARow(q) ==
  /\ HasTable(snapshot, q.table)
  /\ snapshot.triggers = <<>>
  /\ Len(q.values[1]) = Len(resolveInsertColumns(snapshot.tables[q.table], q.columns))
  /\ execute(Self, q).err \in ConstraintErrors

\* r is what exec(q) left after raising on row k: each of rows 1..k-1 of the
\* statement is a row of the table, no more than k-1 rows were added, and the
\* counters are untouched
EarlierRowsStored(q, r, k) ==
  /\ \A i \in 1..(k - 1) : \E n \in 1..Len(RowsOf(r.db, q.table)) : StoredFrom(RowsOf(r.db, q.table)[n], q, i)
  /\ Len(RowsOf(r.db, q.table)) <= Len(RowsOf(Self, q.table)) + k - 1
  /\ r.db.lastChanges = lastChanges
  /\ r.db.totalChangesValue = totalChangesValue

\* C30: outside transaction() and with no triggers defined, when a multi-row
\* INSERT ... VALUES (with or without OR REPLACE / OR IGNORE) raises a
\* constraint error on its k-th row, rows 1..k-1 of the statement remain
\* stored, rows k and later are not stored, and changes() and totalChanges()
\* keep the values they had before the statement.
C30_FailedInsertKeepsEarlierRows ==
  \A q \in MultiRowInserts :
    FailsOnARow(q) => EarlierRowsStored(q, execute(Self, q), FailingRow(q))

\* C30, for the INSERT without OR REPLACE / OR IGNORE: when a multi-row
\* INSERT ... VALUES raises a constraint error on its k-th row, the table
\* holds the rows it held before followed by rows 1..k-1 of the statement,
\* rows k and later are not stored, and changes() and totalChanges() keep the
\* values they had before the statement.
C30_FailedPlainInsertKeepsEarlierRows ==
  \A q \in MultiRowInserts :
    (q.or = "" /\ FailsOnARow(q)) => EarlierRowsOnly(q, execute(Self, q), FailingRow(q))

\* a table with a row and counters that are not 0, where a plain INSERT of
\* three rows raises on its third row after storing two
C30_Witness ==
  /\ Len(RowsOf(Self, "t")) >= 1
  /\ lastChanges >= 1
  /\ totalChangesValue >= 1
  /\ \E q \in MultiRowInserts :
       /\ q.or = ""
       /\ FailsOnARow(q)
       /\ FailingRow(q) = 3
       /\ Len(RowsOf(execute(Self, q).db, "t")) = Len(RowsOf(Self, "t")) + 2

============================================================================
